---- MODULE Spec2Model ----
(***************************************************************************)
(* Scoring pipeline of the Convex coding evals runner.                     *)
(*   runner/scorer.py          convex_scorer and its stage helpers         *)
(*   runner/convex_backend.py  the backend deploy helper                   *)
(*   runner/logging.py         the best-effort log helpers                 *)
(*   runner/create_eval.py     main() of the eval-scaffolding CLI          *)
(* Paths are strings, modelled as sequences of text blocks (a character, or *)
(* a fixed word such as "src" that is never split), so that normpath,      *)
(* str.startswith and the substring test act on them as in the code.       *)
(***************************************************************************)
EXTENDS Integers, Sequences, FiniteSets, TLC

VARIABLES
    disk,        \* the filesystem: [dirs: set of paths, files: path -> content]
    fsOutput,    \* write_filesystem alone: the artifact map handed to it
    fsState,     \* write_filesystem alone: "ready", "returned" or "raised"
    pc,          \* convex_scorer: the statement it is at
    scores,      \* convex_scorer: the score vector
    passed,      \* convex_scorer: the passed_* flags that are True
    tests_ratio, \* convex_scorer: tests_ratio
    status,      \* convex_scorer: the symbol of the status line, "" before it
    failures,    \* convex_scorer: the failures list of the status line
    exc,         \* convex_scorer: an exception is propagating
    result,      \* convex_scorer: "running", "returned" or "raised"
    calls,       \* helper -> number of times convex_scorer called it
    runs,        \* helper -> exit codes of the commands it ran, in order
    backend,     \* role -> the backend instance of the with statement
    testEnv,     \* port variables in the environment of the test runner
    dpc,         \* deploy helper: caller -> the statement it is at
    dexc,        \* deploy helper: caller -> an exception is propagating
    dres,        \* deploy helper: caller -> "running", "returned" or "raised"
    proc,        \* deploy helper: caller -> the backend process it spawned
    dlog,        \* deploy helper: caller -> what the call observed and ran
    trInput,     \* run_tests: exit code and output of the test runner
    trResult,    \* run_tests: how the call ended
    wpc,         \* two pipelines: task -> number of steps it has taken
    written,     \* two pipelines: task -> locations written for it so far
    envIn,       \* run_tests: the parent environment and the backends given
    envOut,      \* run_tests: the environment it passes to the runner
    walkIn,      \* walk_answer alone: the files of the answer directory
    walkOut,     \* walk_answer alone: the paths it yielded
    logIn,       \* logging: the call made and its arguments
    logOut,      \* logging: how the call ended, and the log file after it
    evalsTree,   \* create_eval: eval directory name -> files in it
    cli,         \* create_eval: the run of main() in progress
    cliHist      \* create_eval: the runs of main() that ended, in order

fsVars == <<disk, fsOutput, fsState>>
scorerVars == <<pc, scores, passed, tests_ratio, status, failures, exc, result,
                calls, runs, backend, testEnv>>
helperVars == <<dpc, dexc, dres, proc, dlog>>
testVars == <<trInput, trResult>>
shareVars == <<wpc, written>>
envVars == <<envIn, envOut>>
walkVars == <<walkIn, walkOut>>
logVars == <<logIn, logOut>>
cliVars == <<evalsTree, cli, cliHist>>
unitVars == <<walkVars, logVars, cliVars>>
auxVars == <<shareVars, envVars, unitVars>>
vars == <<fsVars, scorerVars, helperVars, testVars, auxVars>>

(***************************************************************************)
(* Bounds                                                                  *)
(***************************************************************************)
MaxEntries == 2     \* entries of a generated artifact map
NumPorts == 2       \* ports the host can hand out
MaxTests == 2       \* tests in a report of the test runner, in a scorer run
MaxCount == 4       \* tests in a report of the test runner, run_tests alone
MaxText == 2        \* blocks of a text handed to a logging function
MaxResults == 2     \* entries of a results list handed to log_cmd_results
MaxExisting == 1    \* evals the category holds before create_eval is first run
MaxRuns == 2        \* runs of create_eval

(***************************************************************************)
(* posixpath                                                               *)
(***************************************************************************)
StartsWith(s, prefix) ==
    /\ Len(prefix) <= Len(s)
    /\ SubSeq(s, 1, Len(prefix)) = prefix

EndsWithSlash(s) == s # <<>> /\ s[Len(s)] = "/"

\* str.split("/")
RECURSIVE SplitAcc(_, _, _)
SplitAcc(s, cur, acc) ==
    IF s = <<>> THEN Append(acc, cur)
    ELSE IF Head(s) = "/" THEN SplitAcc(Tail(s), <<>>, Append(acc, cur))
    ELSE SplitAcc(Tail(s), Append(cur, Head(s)), acc)

Split(s) == SplitAcc(s, <<>>, <<>>)

\* "/".join(comps)
RECURSIVE JoinSlash(_)
JoinSlash(comps) ==
    IF comps = <<>> THEN <<>>
    ELSE IF Len(comps) = 1 THEN comps[1]
    ELSE comps[1] \o <<"/">> \o JoinSlash(Tail(comps))

\* os.path.join(a, b)
PathJoin(a, b) ==
    IF StartsWith(b, <<"/">>) THEN b
    ELSE IF a = <<>> \/ EndsWithSlash(a) THEN a \o b
    ELSE a \o <<"/">> \o b

\* the loop of posixpath.normpath over the components
RECURSIVE NormComps(_, _, _)
NormComps(comps, new, initial) ==
    IF comps = <<>> THEN new
    ELSE LET comp == Head(comps)
             rest == Tail(comps)
         IN IF comp = <<>> \/ comp = <<".">>
            THEN NormComps(rest, new, initial)
            ELSE IF \/ comp # <<".", ".">>
                    \/ (~initial /\ new = <<>>)
                    \/ (new # <<>> /\ new[Len(new)] = <<".", ".">>)
            THEN NormComps(rest, Append(new, comp), initial)
            ELSE IF new # <<>>
            THEN NormComps(rest, SubSeq(new, 1, Len(new) - 1), initial)
            ELSE NormComps(rest, new, initial)

\* os.path.normpath(path); paths starting with exactly two slashes do not
\* occur in the inputs
NormPath(path) ==
    IF path = <<>> THEN <<".">>
    ELSE LET initial == StartsWith(path, <<"/">>)
             joined  == JoinSlash(NormComps(Split(path), <<>>, initial))
             p       == IF initial THEN <<"/">> \o joined ELSE joined
         IN IF p = <<>> THEN <<".">> ELSE p

\* the working directory of the runner process
Cwd == <<"/", "w">>

\* os.path.abspath(path)
AbsPath(path) == NormPath(PathJoin(Cwd, path))

\* index of the last "/" of s, 0 if there is none
LastSlash(s) ==
    LET idx == {i \in 1..Len(s) : s[i] = "/"}
    IN IF idx = {} THEN 0 ELSE CHOOSE i \in idx : \A j \in idx : j <= i

RECURSIVE RStripSlash(_)
RStripSlash(s) == IF EndsWithSlash(s) THEN RStripSlash(SubSeq(s, 1, Len(s) - 1)) ELSE s

\* os.path.dirname(p)
Dirname(p) ==
    LET head == SubSeq(p, 1, LastSlash(p))
    IN IF head # <<>> /\ (\E i \in 1..Len(head) : head[i] # "/")
       THEN RStripSlash(head) ELSE head

\* p and every ancestor directory of p, for a normalized absolute p
RECURSIVE SelfAndAncestors(_)
SelfAndAncestors(p) ==
    IF p = <<"/">> \/ p = <<>> THEN {p}
    ELSE {p} \cup SelfAndAncestors(Dirname(p))

\* p is dir itself or lies below it (component-wise, not character-wise)
IsInside(p, dir) == dir \in SelfAndAncestors(p)

(***************************************************************************)
(* The filesystem                                                          *)
(***************************************************************************)
IsFile(p, d) == p \in DOMAIN d.files
IsDir(p, d)  == p \in d.dirs
Exists(p, d) == IsFile(p, d) \/ IsDir(p, d)

\* os.makedirs(p, exist_ok=True) fails when p or an ancestor is a file
MakedirsFails(p, d) == \E a \in SelfAndAncestors(p) : IsFile(a, d)

Makedirs(p, d) == [d EXCEPT !.dirs = @ \cup SelfAndAncestors(p)]

\* open(p, "w") fails when p is a directory or its parent is not one
OpenFails(p, d) == IsDir(p, d) \/ ~IsDir(Dirname(p), d)

\* a file opened for writing and closed without the content
WriteFile_Truncate(p, content, d) ==
    [d EXCEPT !.files = [q \in DOMAIN @ \cup {p} |-> IF q = p THEN "" ELSE @[q]]]

WriteFile(p, content, d) ==
    [d EXCEPT !.files = [q \in DOMAIN @ \cup {p} |-> IF q = p THEN content ELSE @[q]]]

EmptyFiles == [q \in {} |-> "x"]

(***************************************************************************)
(* Task identifiers and the per-task directories of convex_scorer          *)
(***************************************************************************)
Tempdir  == <<"/", "t">>
Model    == <<"m">>
Category == <<"c">>
Name     == <<"n">>

OutputProjectDir(tempdir, model, category, name) ==
    tempdir \o <<"/", "output", "/">> \o model
            \o <<"/">> \o category \o <<"/">> \o name

\* output_project_dir_abs of the task under evaluation
ProjectDirAbs == AbsPath(OutputProjectDir(Tempdir, Model, Category, Name))

(***************************************************************************)
(* Generated artifacts: relative path -> content, in insertion order       *)
(***************************************************************************)
RelPaths == {
    <<"a">>,                                   \* a
    <<"src", "/", "a">>,                       \* src/a
    <<"src">>,                                 \* src
    <<".", "/", "a">>,                         \* ./a
    <<".">>,                                   \* .
    <<".", ".", "/", "x">>,                    \* ../x
    <<".", ".", "/", "n", "2", "/", "x">>,     \* ../n2/x
    <<"/", "e", "/", "x">> }                   \* /e/x

Contents == {"c1", "c2"}

Entries == [path : RelPaths, content : Contents]

\* a dict has each key once
DistinctKeys(output) ==
    \A i, j \in 1..Len(output) : i # j => output[i].path # output[j].path

ArtifactsOfLen(n) == {output \in [1..n -> Entries] : DistinctKeys(output)}

Artifacts == UNION {ArtifactsOfLen(n) : n \in 0..MaxEntries}

\* the file an entry is written to
FilePath(project_dir_abs, relative_path) ==
    NormPath(PathJoin(project_dir_abs, relative_path))

\* the check of write_filesystem that rejects an entry
Rejected(file_path, project_dir_abs) == ~StartsWith(file_path, project_dir_abs)

\* the loop of write_filesystem over output.items()
RECURSIVE WriteEntries(_, _, _)
WriteEntries(project_dir_abs, output, d) ==
    IF output = <<>> THEN [disk |-> d, raised |-> FALSE]
    ELSE LET file_path == FilePath(project_dir_abs, Head(output).path)
             parent    == Dirname(file_path)
         IN IF Rejected(file_path, project_dir_abs)
            THEN [disk |-> d, raised |-> TRUE]
            ELSE IF MakedirsFails(parent, d)
            THEN [disk |-> d, raised |-> TRUE]
            ELSE IF OpenFails(file_path, Makedirs(parent, d))
            THEN [disk |-> Makedirs(parent, d), raised |-> TRUE]
            ELSE WriteEntries(project_dir_abs, Tail(output),
                              WriteFile(file_path, Head(output).content,
                                        Makedirs(parent, d)))

write_filesystem(project_dir, output, d) ==
    WriteEntries(AbsPath(project_dir), output, d)

(***************************************************************************)
(* Scores                                                                  *)
(***************************************************************************)
RECURSIVE GCD(_, _)
GCD(a, b) == IF b = 0 THEN a ELSE GCD(b, a % b)

Abs(x) == IF x < 0 THEN 0 - x ELSE x

\* the number n / d (d > 0), in lowest terms
Frac(n, d) == LET g == GCD(Abs(n), d) IN [n |-> n \div g, d |-> d \div g]

Zero == Frac(0, 1)
One  == Frac(1, 1)

Score(name, value) == [name |-> name, score |-> value]

\* the labels of the scores; the source writes the command of L_install,
\* L_codegen and L_deploy between backquotes
L_filesystem == "Valid filesystem output"
L_install    == "bun install succeeds"
L_codegen    == "convex codegen succeeds"
L_tsc        == "Passes tsc"
L_eslint     == "Passes eslint"
L_deploy     == "convex dev succeeds"
L_tests      == "Tests pass"

(***************************************************************************)
(* The stage helpers: what they run and whether they raise, given the exit *)
(* codes of the commands                                                   *)
(***************************************************************************)
ExitCodes == {0, 1}

install_dependencies(rc) == [raised |-> rc # 0, rcs |-> <<rc>>]

generate_code(rc) == [raised |-> rc # 0, rcs |-> <<rc>>]

typecheck_code(project_dir, rc1, rc2, d) ==
    LET src_dir == AbsPath(PathJoin(project_dir, <<"src">>))
    IN IF rc1 # 0 THEN [raised |-> TRUE, rcs |-> <<rc1>>]
       ELSE IF Exists(src_dir, d) THEN [raised |-> rc2 # 0, rcs |-> <<rc1, rc2>>]
       ELSE [raised |-> FALSE, rcs |-> <<rc1>>]

lint_code(project_dir, rc1, rc2, d) ==
    LET src_dir == PathJoin(project_dir, <<"src">>)
    IN IF rc1 # 0 THEN [raised |-> TRUE, rcs |-> <<rc1>>]
       ELSE IF Exists(src_dir, d) THEN [raised |-> rc2 # 0, rcs |-> <<rc1, rc2>>]
       ELSE [raised |-> FALSE, rcs |-> <<rc1>>]

\* deploy that does not look at the exit code
deploy_IgnoreExit(rc) == [raised |-> FALSE, rcs |-> <<rc>>]

deploy(rc) == [raised |-> rc # 0, rcs |-> <<rc>>]

(***************************************************************************)
(* The answer project                                                      *)
(***************************************************************************)
EvalPath(category, name) == <<"evals", "/">> \o category \o <<"/">> \o name

AnswerDir(eval_path) == eval_path \o <<"/", "answer">>

AnswerProjectDir(tempdir, model, category, name) ==
    tempdir \o <<"/", "answer", "/">> \o model
            \o <<"/">> \o category \o <<"/">> \o name

OutputBackendDir(tempdir, model, category, name) ==
    tempdir \o <<"/", "backends", "/", "output", "/">> \o model
            \o <<"/">> \o category \o <<"/">> \o name

\* an answer backend directory that is the one of the output backend
AnswerBackendDir_SameAsOutput(tempdir, model, category, name) ==
    tempdir \o <<"/", "backends", "/", "output", "/">> \o model
            \o <<"/">> \o category \o <<"/">> \o name

AnswerBackendDir(tempdir, model, category, name) ==
    tempdir \o <<"/", "backends", "/", "answer", "/">> \o model
            \o <<"/">> \o category \o <<"/">> \o name

\* the files of the reference answer, relative to the answer directory
AnswerTree == {
    <<"package.json">>,
    <<"convex", "/", "a", ".ts">>,
    <<"convex", "/", "readme">>,
    <<"convex", "/", "_generated", "/", "api", ".ts">>,
    <<"node_modules", "/", "p", "/", "i", ".ts">> }

\* sub occurs in s (the Python test: sub in s)
Contains(s, sub) ==
    \E i \in 0..(Len(s) - Len(sub)) : SubSeq(s, i + 1, i + Len(sub)) = sub

EndsWith(s, suffix) ==
    /\ Len(suffix) <= Len(s)
    /\ SubSeq(s, Len(s) - Len(suffix) + 1, Len(s)) = suffix

Basename(p) == SubSeq(p, LastSlash(p) + 1, Len(p))

\* os.path.relpath(p, start) for p below start
RelPath(p, start) ==
    LET a == AbsPath(p)
        b == AbsPath(start)
    IN SubSeq(a, Len(b) + 2, Len(a))

\* walk_answer(answer_dir): the paths it yields, each as
\* os.path.join(dirpath, filename) with dirpath starting with answer_dir
walk_answer(answer_dir, d) ==
    LET root  == AbsPath(answer_dir)
        below == {f \in DOMAIN d.files : f # root /\ IsInside(f, root)}
        dirpath(f) == LET rel == Dirname(RelPath(f, root))
                      IN IF rel = <<>> THEN answer_dir ELSE PathJoin(answer_dir, rel)
    IN {PathJoin(dirpath(f), Basename(f)) : f \in
          {f \in below :
              /\ ~Contains(dirpath(f), <<"node_modules">>)
              /\ ~Contains(dirpath(f), <<"_generated">>)
              /\ \/ Basename(f) = <<"package.json">>
                 \/ EndsWith(Basename(f), <<".ts">>)}}

\* the copy loop of setup_answer_backend
RECURSIVE CopyAll(_, _, _, _)
CopyAll(sources, answer_dir, answer_project_dir, d) ==
    IF sources = {} THEN d
    ELSE LET source_path      == CHOOSE x \in sources : TRUE
             relative_path    == RelPath(source_path, answer_dir)
             destination_path == PathJoin(answer_project_dir, relative_path)
         IN CopyAll(sources \ {source_path}, answer_dir, answer_project_dir,
                    WriteFile(AbsPath(destination_path),
                              d.files[AbsPath(source_path)],
                              Makedirs(AbsPath(Dirname(destination_path)), d)))

\* the disk before the evaluation: the project directory made by
\* convex_scorer, and the answer tree of the eval
InitDisk ==
    LET answer == AbsPath(AnswerDir(EvalPath(Category, Name)))
        files  == {PathJoin(answer, f) : f \in AnswerTree}
    IN [dirs  |-> SelfAndAncestors(ProjectDirAbs)
                    \cup UNION {SelfAndAncestors(Dirname(f)) : f \in files},
        files |-> [f \in files |-> "ref"]]

(***************************************************************************)
(* The test run                                                            *)
(***************************************************************************)
\* The output of the runner is a sequence of text blocks. A block is a
\* brace, a closing bracket, or a text that holds no brace: the two counts
\* of a report, a key with its opening bracket, the members of one assertion
\* result, or any other text.
Block(k) ==
    [k |-> k, total |-> 0, passed |-> 0, status |-> "", title |-> "", msgs |-> <<>>]

LBrace == Block("{")
RBrace == Block("}")
RBracket == Block("]")
Noise == Block("text")
ResultsOpen == Block("testResults[")
AssertsOpen == Block("assertionResults[")
CountsBlock(total, npass) ==
    [Block("counts") EXCEPT !.total = total, !.passed = npass]
TestBlock(t) ==
    [Block("test") EXCEPT !.status = t.status, !.title = t.title,
                          !.msgs = t.failureMessages]

\* the JSON text of a report of the runner
RECURSIVE EncodeTests(_)
EncodeTests(tests) ==
    IF tests = <<>> THEN <<>>
    ELSE <<LBrace, TestBlock(Head(tests)), RBrace>> \o EncodeTests(Tail(tests))

RECURSIVE EncodeFiles(_)
EncodeFiles(files) ==
    IF files = <<>> THEN <<>>
    ELSE <<LBrace, AssertsOpen>> \o EncodeTests(Head(files)) \o <<RBracket, RBrace>>
         \o EncodeFiles(Tail(files))

Encode(report) ==
    <<LBrace>>
    \o (IF report.counts THEN <<CountsBlock(report.total, report.passed)>> ELSE <<>>)
    \o <<ResultsOpen>> \o EncodeFiles(report.testResults) \o <<RBracket, RBrace>>

\* json.loads for such a text: ok is FALSE where it raises
RECURSIVE ParseTests(_, _, _)
ParseTests(s, i, acc) ==
    IF /\ i + 2 <= Len(s)
       /\ s[i].k = "{" /\ s[i + 1].k = "test" /\ s[i + 2].k = "}"
    THEN ParseTests(s, i + 3,
                    Append(acc, [status |-> s[i + 1].status, title |-> s[i + 1].title,
                                 failureMessages |-> s[i + 1].msgs]))
    ELSE [pos |-> i, value |-> acc]

RECURSIVE ParseFiles(_, _, _)
ParseFiles(s, i, acc) ==
    IF i + 1 <= Len(s) /\ s[i].k = "{" /\ s[i + 1].k = "assertionResults["
    THEN LET t == ParseTests(s, i + 2, <<>>)
         IN IF t.pos + 1 <= Len(s) /\ s[t.pos].k = "]" /\ s[t.pos + 1].k = "}"
            THEN ParseFiles(s, t.pos + 2, Append(acc, t.value))
            ELSE [ok |-> FALSE, pos |-> i, value |-> acc]
    ELSE [ok |-> TRUE, pos |-> i, value |-> acc]

NoReport == [counts |-> FALSE, total |-> 0, passed |-> 0, testResults |-> <<>>]

json_loads(s) ==
    LET counts == Len(s) >= 2 /\ s[2].k = "counts"
        j      == IF counts THEN 3 ELSE 2
        files  == ParseFiles(s, j + 1, <<>>)
    IN IF /\ Len(s) >= j
          /\ s[1].k = "{"
          /\ s[j].k = "testResults["
          /\ files.ok
          /\ files.pos + 1 = Len(s)
          /\ s[files.pos].k = "]"
          /\ s[files.pos + 1].k = "}"
       THEN [ok |-> TRUE,
             value |-> [counts |-> counts,
                        total |-> IF counts THEN s[2].total ELSE 0,
                        passed |-> IF counts THEN s[2].passed ELSE 0,
                        testResults |-> files.value]]
       ELSE [ok |-> FALSE, value |-> NoReport]

Positions(s, k) == {i \in 1..Len(s) : s[i].k = k}
Min(S) == CHOOSE x \in S : \A y \in S : x <= y
Max(S) == CHOOSE x \in S : \A y \in S : x >= y

\* the substitution with a pattern that stops at the first closing brace
CleanStdout_Lazy(s) ==
    LET opens  == Positions(s, "{")
        closes == Positions(s, "}")
    IN IF opens # {} /\ closes # {} /\ Min(opens) < Max(closes)
       THEN SubSeq(s, Min(opens), Min({j \in closes : j > Min(opens)}))
       ELSE s

\* re.sub(r"^.*?(\{.*\}).*$", r"\1", stdout, flags=re.DOTALL): the shortest
\* prefix before an opening brace, then the longest text up to a closing
\* brace; a text the pattern does not match is left as it is
CleanStdout(s) ==
    LET opens  == Positions(s, "{")
        closes == Positions(s, "}")
    IN IF opens # {} /\ closes # {} /\ Min(opens) < Max(closes)
       THEN SubSeq(s, Min(opens), Max(closes))
       ELSE s

\* what an f-string prints for a list of strings
RECURSIVE ReprItems(_)
ReprItems(msgs) ==
    IF msgs = <<>> THEN <<>>
    ELSE <<"'", Head(msgs), "'">>
         \o (IF Tail(msgs) = <<>> THEN <<>> ELSE <<", ">> \o ReprItems(Tail(msgs)))

ListRepr(msgs) == <<"[">> \o ReprItems(msgs) \o <<"]">>

\* scorer.py 325-328: one line for each failed test of the list
RECURSIVE ErrorMessage(_)
ErrorMessage(tests) ==
    IF tests = <<>> THEN <<>>
    ELSE (IF Head(tests).status = "failed"
          THEN <<Head(tests).title, ": ">> \o ListRepr(Head(tests).failureMessages)
               \o <<"LF">>
          ELSE <<>>)
         \o ErrorMessage(Tail(tests))

\* how a call of run_tests ends: kind is "return", "TestsFailedException" or
\* "Exception"; message is the text of the exception and raw the runner
\* output the text quotes
Outcome(kind, ratio, message, raw, rc) ==
    [kind |-> kind, ratio |-> ratio, message |-> message, raw |-> raw, rcs |-> <<rc>>]

NoResult ==
    [kind |-> "none", ratio |-> Zero, message |-> <<>>, raw |-> <<>>, rcs |-> <<>>]

\* the handler with its two messages exchanged
ParseFailure_Swapped(rc, stdout, e) ==
    IF rc = 0
    THEN Outcome("Exception", Zero, <<"Failed to run tests:", "LF">>, stdout, rc)
    ELSE Outcome("Exception", Zero, <<"Failed to parse tests results: ", e>>, <<>>, rc)

\* scorer.py 318-322
ParseFailure(rc, stdout, e) ==
    IF rc # 0
    THEN Outcome("Exception", Zero, <<"Failed to run tests:", "LF">>, stdout, rc)
    ELSE Outcome("Exception", Zero, <<"Failed to parse tests results: ", e>>, <<>>, rc)

\* scorer.py 287-330, after the runner has exited with rc and printed stdout
run_tests(rc, stdout) ==
    LET cleaned_stdout == CleanStdout(stdout)
        results == json_loads(cleaned_stdout)
    IN IF ~results.ok THEN ParseFailure(rc, stdout, "JSONDecodeError")
       ELSE IF ~results.value.counts THEN ParseFailure(rc, stdout, "KeyError")
       ELSE LET total  == results.value.total
                npass  == results.value.passed
                ratio  == IF total > 0 THEN Frac(npass, total) ELSE Zero
            IN IF ratio # One
               THEN IF results.value.testResults = <<>>
                    THEN Outcome("Exception", Zero, <<"IndexError">>, <<>>, rc)
                    ELSE Outcome("TestsFailedException", ratio,
                                 <<"Tests failed:", "LF">>
                                 \o ErrorMessage(results.value.testResults[1]), <<>>, rc)
               ELSE Outcome("return", ratio, <<>>, <<>>, rc)

\* reports and outputs of the runner
PassedTest(title) == [status |-> "passed", title |-> title, failureMessages |-> <<>>]
FailedTest(title, msgs) == [status |-> "failed", title |-> title, failureMessages |-> msgs]

TestFiles ==
    {<<>>,
     <<PassedTest("T1")>>,
     <<FailedTest("T4", <<"boom">>)>>,
     <<PassedTest("T1"), FailedTest("T4", <<"boom">>)>>,
     <<PassedTest("T1"), PassedTest("T2"), PassedTest("T3"), FailedTest("T4", <<"boom">>)>>,
     <<FailedTest("T2", <<"bang", "boom">>), PassedTest("T3"), FailedTest("T4", <<"boom">>)>>}

TestResults ==
    {<<>>} \cup {<<f>> : f \in TestFiles}
    \cup {<<<<PassedTest("T1")>>, <<FailedTest("T4", <<"boom">>)>>>>}

ReportsUpTo(n) ==
    [counts : {TRUE}, total : 0..n, passed : -1..(n + 1), testResults : TestResults]
    \cup [counts : {FALSE}, total : {0}, passed : {0}, testResults : TestResults]

Reports == ReportsUpTo(MaxCount)

Leads == {<<>>, <<Noise>>, <<Noise, LBrace>>, <<RBrace, Noise>>}
Trails == {<<>>, <<Noise>>, <<Noise, RBrace>>, <<LBrace, Noise>>}

\* an exit code and an output made of a leading text, a report (when
\* hasReport) and a trailing text
Input(rc, lead, hasReport, report, trail) ==
    [rc |-> rc,
     stdout |-> lead \o (IF hasReport THEN Encode(report) ELSE <<>>) \o trail,
     lead |-> lead, hasReport |-> hasReport, report |-> report, trail |-> trail]

NoInput == Input(0, <<>>, FALSE, NoReport, <<>>)

TestInputs ==
    {Input(rc, l, TRUE, r, t) : rc \in ExitCodes, l \in Leads, r \in Reports, t \in Trails}
    \cup {Input(rc, l, FALSE, NoReport, <<>>) : rc \in ExitCodes, l \in Leads}

\* the outputs tried in a run of convex_scorer: reports of one file with a
\* failed test and any counts, reports without a file or without counts, a
\* report after a text with a brace, and an output without a report
TestOutputs ==
    {Input(rc, <<>>, TRUE, r, <<>>) :
        rc \in ExitCodes,
        r \in {x \in ReportsUpTo(MaxTests) :
                 \/ x.counts /\ x.testResults = <<<<FailedTest("T4", <<"boom">>)>>>>
                 \/ x.total = 0 /\ x.passed = 0 /\ x.testResults = <<>>}}
    \cup {Input(rc, <<Noise, LBrace>>, TRUE,
                 [counts |-> TRUE, total |-> 1, passed |-> 1,
                  testResults |-> <<<<PassedTest("T1")>>>>], <<>>) : rc \in ExitCodes}
    \cup {Input(rc, <<Noise>>, FALSE, NoReport, <<>>) : rc \in ExitCodes}

(***************************************************************************)
(* Backend instances of the convex_backend context manager                 *)
(***************************************************************************)
Roles == {"output", "answer"}

Ports == 1..NumPorts

NoBackend == [state |-> "none", port |-> 0, dir |-> <<>>, storage |-> <<>>,
              spawned |-> 0, started |-> FALSE, stops |-> 0]

\* the blob storage directory of an instance
StorageDir(backend_dir) ==
    AbsPath(PathJoin(backend_dir, <<"convex_local_storage">>))

\* ports of the instances that are running
PortsInUse(b) == {b[r].port : r \in {x \in Roles : b[x].state = "running"}}

\* a port no running instance is bound to
FreePorts(b) == Ports \ PortsInUse(b)

\* entering the context manager: the process is spawned on a fresh port and
\* probed; when the start fails the process is stopped and the error raised
ConvexBackendEnter(backend_dir, port, ok) ==
    [state   |-> IF ok THEN "running" ELSE "stopped",
     port    |-> port,
     dir     |-> backend_dir,
     storage |-> StorageDir(backend_dir),
     spawned |-> 1,
     started |-> ok,
     stops   |-> IF ok THEN 0 ELSE 1]

\* leaving the context manager stops the process
ConvexBackendExit(inst) == [inst EXCEPT !.state = "stopped", !.stops = @ + 1]

(***************************************************************************)
(* The deploy helper of convex_backend.py: deploy(output_dir)              *)
(***************************************************************************)
Deployers == {"d1", "d2"}

\* the identifiers of the task each caller deploys
TaskOf(d) == IF d = "d1" THEN [model |-> <<"m">>, category |-> <<"c">>, name |-> <<"n">>]
             ELSE [model |-> <<"m", "2">>, category |-> <<"c">>, name |-> <<"n">>]

\* the output_dir argument of each caller
OutputDirOf(d) == OutputProjectDir(Tempdir, TaskOf(d).model, TaskOf(d).category,
                                   TaskOf(d).name)

\* the --port argument of the spawned backend
HelperPort == 3210

HelperBackendDir(output_dir) == PathJoin(output_dir, <<"backend">>)

NoProc == [state |-> "none", port |-> 0, storage |-> <<>>, terminates |-> 0]

NoLog == [probed |-> FALSE, probeFailed |-> FALSE, polled |-> FALSE,
          exitedAtPoll |-> FALSE, deploys |-> 0, servedBy |-> ""]

InitHelper ==
    /\ dpc = [d \in Deployers |-> "popen"]
    /\ dexc = [d \in Deployers |-> FALSE]
    /\ dres = [d \in Deployers |-> "running"]
    /\ proc = [d \in Deployers |-> NoProc]
    /\ dlog = [d \in Deployers |-> NoLog]

\* processes that listen on the port
Serving(port) == {e \in Deployers : proc[e].state = "serving" /\ proc[e].port = port}

\* convex_backend.py 6-31: the directories are made and the process spawned
DPopen(d) ==
    /\ dpc[d] = "popen"
    /\ LET backend_dir == HelperBackendDir(OutputDirOf(d))
           storage_dir == StorageDir(backend_dir)
       IN /\ disk' = WriteFile(AbsPath(PathJoin(backend_dir, <<"backend.stderr.log">>)), "",
                     WriteFile(AbsPath(PathJoin(backend_dir, <<"backend.stdout.log">>)), "",
                     Makedirs(storage_dir, Makedirs(AbsPath(backend_dir), disk))))
          /\ proc' = [proc EXCEPT ![d] = [state |-> "starting", port |-> HelperPort,
                                          storage |-> storage_dir, terminates |-> 0]]
    /\ dpc' = [dpc EXCEPT ![d] = "health"]
    /\ UNCHANGED <<fsOutput, fsState, scorerVars, testVars, auxVars, dexc, dres, dlog>>

\* the spawned process binds its port and starts serving, which it can only
\* do while no other process listens on that port
ProcServe(d) ==
    /\ proc[d].state = "starting"
    /\ Serving(proc[d].port) = {}
    /\ proc' = [proc EXCEPT ![d].state = "serving"]
    /\ UNCHANGED <<fsVars, scorerVars, testVars, auxVars, dpc, dexc, dres, dlog>>

\* the spawned process exits on its own: it could not bind, or it crashed
ProcExit(d) ==
    /\ proc[d].state \in {"starting", "serving"}
    /\ proc' = [proc EXCEPT ![d].state = "exited"]
    /\ UNCHANGED <<fsVars, scorerVars, testVars, auxVars, dpc, dexc, dres, dlog>>

\* convex_backend.py 34: GET /version on the port and raise_for_status; it
\* can succeed only if some process listens on the port
DHealth(d) ==
    /\ dpc[d] = "health"
    /\ \/ /\ \E e \in Serving(HelperPort) :
               dlog' = [dlog EXCEPT ![d].probed = TRUE, ![d].servedBy = e]
          /\ dpc' = [dpc EXCEPT ![d] = "poll"]
          /\ UNCHANGED dexc
       \/ /\ dexc' = [dexc EXCEPT ![d] = TRUE]
          /\ dpc' = [dpc EXCEPT ![d] = "finally"]
          /\ dlog' = [dlog EXCEPT ![d].probeFailed = TRUE]
    /\ UNCHANGED <<fsVars, scorerVars, testVars, auxVars, dres, proc>>

\* the helper going on to deploy whatever poll() says
DPoll_NoCheck(d) ==
    /\ dpc[d] = "poll"
    /\ dlog' = [dlog EXCEPT ![d].polled = TRUE,
                            ![d].exitedAtPoll = (proc[d].state = "exited")]
    /\ dpc' = [dpc EXCEPT ![d] = "deploy"]
    /\ UNCHANGED dexc
    /\ UNCHANGED <<fsVars, scorerVars, testVars, auxVars, dres, proc>>

\* convex_backend.py 35-36
DPoll(d) ==
    /\ dpc[d] = "poll"
    /\ IF proc[d].state = "exited"
       THEN /\ dexc' = [dexc EXCEPT ![d] = TRUE]
            /\ dpc' = [dpc EXCEPT ![d] = "finally"]
            /\ dlog' = [dlog EXCEPT ![d].exitedAtPoll = TRUE]
       ELSE /\ dlog' = [dlog EXCEPT ![d].polled = TRUE]
            /\ dpc' = [dpc EXCEPT ![d] = "deploy"]
            /\ UNCHANGED dexc
    /\ UNCHANGED <<fsVars, scorerVars, testVars, auxVars, dres, proc>>

\* a deploy whose failure leaves the helper without the finally clause
DDeploy_NoFinally(d) ==
    /\ dpc[d] = "deploy"
    /\ \E rc \in ExitCodes :
         /\ dlog' = [dlog EXCEPT ![d].deploys = @ + 1]
         /\ dexc' = [dexc EXCEPT ![d] = (rc # 0)]
         /\ dpc' = [dpc EXCEPT ![d] = IF rc # 0 THEN "done" ELSE "finally"]
         /\ dres' = [dres EXCEPT ![d] = IF rc # 0 THEN "raised" ELSE @]
    /\ UNCHANGED <<fsVars, scorerVars, testVars, auxVars, proc>>

\* convex_backend.py 37-40: check_call of the one-shot deploy command
DDeploy(d) ==
    /\ dpc[d] = "deploy"
    /\ \E rc \in ExitCodes :
         /\ dlog' = [dlog EXCEPT ![d].deploys = @ + 1]
         /\ dexc' = [dexc EXCEPT ![d] = (rc # 0)]
         /\ dpc' = [dpc EXCEPT ![d] = "finally"]
    /\ UNCHANGED <<fsVars, scorerVars, testVars, auxVars, dres, proc>>

\* Popen.terminate(): signals the process unless it has already exited
Terminate(p) ==
    [p EXCEPT !.state = IF @ \in {"starting", "serving"} THEN "terminated" ELSE @,
              !.terminates = @ + 1]

\* convex_backend.py 41-42: the finally clause, then return or re-raise
DFinally(d) ==
    /\ dpc[d] = "finally"
    /\ proc' = [proc EXCEPT ![d] = Terminate(@)]
    /\ dpc' = [dpc EXCEPT ![d] = "done"]
    /\ dres' = [dres EXCEPT ![d] = IF dexc[d] THEN "raised" ELSE "returned"]
    /\ UNCHANGED <<fsVars, scorerVars, testVars, auxVars, dexc, dlog>>

DeployStep(d) ==
    \/ DPopen(d)
    \/ ProcServe(d)
    \/ ProcExit(d)
    \/ DHealth(d)
    \/ DPoll(d)
    \/ DDeploy(d)
    \/ DFinally(d)

NextDeploy == \E d \in Deployers : DeployStep(d)

(***************************************************************************)
(* convex_scorer                                                           *)
(***************************************************************************)
Helpers == {"write_filesystem", "install", "codegen", "tsc", "eslint",
            "start_output", "deploy", "setup_answer", "answer_install",
            "answer_codegen", "start_answer", "answer_deploy", "run_tests"}

\* the artifacts convex_scorer is run on
ScorerArtifacts ==
    {output \in Artifacts : Len(output) <= 1 /\ \A i \in 1..Len(output) : output[i].content = "c1"}

\* convex_scorer has made the project directory and is about to write
InitScorer ==
    /\ pc = "write_filesystem"
    /\ scores = <<>>
    /\ passed = {}
    /\ tests_ratio = Zero
    /\ status = ""
    /\ failures = <<>>
    /\ exc = FALSE
    /\ result = "running"
    /\ calls = [h \in Helpers |-> 0]
    /\ runs = [h \in Helpers |-> <<>>]
    /\ backend = [r \in Roles |-> NoBackend]
    /\ testEnv = <<>>

\* two pipelines of the eval run: the same category and name, two models
Tasks == {"t1", "t2"}

\* no pipeline has taken a step
InitShared ==
    /\ wpc = [t \in Tasks |-> 0]
    /\ written = [t \in Tasks |-> {}]

\* decimal digits of a natural number, as str() prints it
Digit(d) ==
    CASE d = 0 -> "0" [] d = 1 -> "1" [] d = 2 -> "2" [] d = 3 -> "3" [] d = 4 -> "4"
      [] d = 5 -> "5" [] d = 6 -> "6" [] d = 7 -> "7" [] d = 8 -> "8" [] d = 9 -> "9"

RECURSIVE Str(_)
Str(n) == IF n < 10 THEN <<Digit(n)>> ELSE Str(n \div 10) \o <<Digit(n % 10)>>

EmptyEnv == [k \in {} |-> <<>>]

\* dict(environ, **{var: value})
WithVar(environ, var, value) ==
    [k \in DOMAIN environ \cup {var} |-> IF k = var THEN value ELSE environ[k]]

\* scorer.py 289-294: the environment run_tests passes to the runner;
\* hasAnswer is FALSE when answer_backend is None
RunnerEnv(environ, backend_port, hasAnswer, answer_port) ==
    LET env == WithVar(environ, "CONVEX_PORT", Str(backend_port))
    IN IF hasAnswer THEN WithVar(env, "CONVEX_ANSWER_PORT", Str(answer_port)) ELSE env

\* run_tests has not built an environment
NoEnvIn == [environ |-> EmptyEnv, port |-> 0, hasAnswer |-> FALSE, answerPort |-> 0]

InitEnvIdle ==
    /\ envIn = NoEnvIn
    /\ envOut = [built |-> FALSE, env |-> EmptyEnv]

\* walk_answer has not been called
NoWalk == [done |-> FALSE, paths |-> {}]

InitWalkIdle ==
    /\ walkIn = {}
    /\ walkOut = NoWalk

\* no logging function has been called
NoLogCall == [fn |-> "none"]
NoLogOut == [state |-> "idle"]

InitLogIdle ==
    /\ logIn = NoLogCall
    /\ logOut = NoLogOut

\* create_eval.py has not been started
NoCli == [state |-> "idle", start_step |-> 1, pc |-> 1, testdir |-> <<>>, ran |-> <<>>]

InitCliIdle ==
    /\ evalsTree = <<>>
    /\ cli = NoCli
    /\ cliHist = <<>>

InitUnitIdle == InitWalkIdle /\ InitLogIdle /\ InitCliIdle

InitAux == InitShared /\ InitEnvIdle /\ InitUnitIdle

\* run_tests has not been called
InitTestRun ==
    /\ trInput = NoInput
    /\ trResult = NoResult

Init ==
    /\ disk = InitDisk
    /\ fsOutput = <<>>
    /\ fsState = "ready"
    /\ InitScorer
    /\ InitHelper
    /\ InitTestRun
    /\ InitAux

\* helper h was called and ran commands with exit codes rcs
Called(h, rcs) ==
    /\ calls' = [calls EXCEPT ![h] = @ + 1]
    /\ runs' = [runs EXCEPT ![h] = @ \o rcs]

\* a stage whose failure ends the build stages
ScoredStage_Gate(h, label, flag, r, next) ==
    /\ Called(h, r.rcs)
    /\ scores' = Append(scores, Score(label, IF r.raised THEN Zero ELSE One))
    /\ passed' = IF r.raised THEN passed ELSE passed \cup {flag}
    /\ pc' = IF r.raised THEN "start_output" ELSE next

\* a try block that appends 1 for the label when the helper returns and 0
\* when it raises, and goes on with the next statement either way
ScoredStage(h, label, flag, r, next) ==
    /\ Called(h, r.rcs)
    /\ scores' = Append(scores, Score(label, IF r.raised THEN Zero ELSE One))
    /\ passed' = IF r.raised THEN passed ELSE passed \cup {flag}
    /\ pc' = next

\* the filesystem stage without its return on failure
WriteFilesystem_NoReturn ==
    /\ pc = "write_filesystem"
    /\ \E output \in ScorerArtifacts :
         LET r == write_filesystem(ProjectDirAbs, output, disk)
         IN /\ fsOutput' = output
            /\ fsState' = IF r.raised THEN "raised" ELSE "returned"
            /\ disk' = r.disk
            /\ Called("write_filesystem", <<>>)
            /\ IF r.raised
               THEN /\ scores' = Append(scores, Score(L_filesystem, Zero))
                    /\ pc' = "install"
                    /\ UNCHANGED <<passed, status, result>>
               ELSE /\ scores' = Append(scores, Score(L_filesystem, One))
                    /\ passed' = passed \cup {"filesystem"}
                    /\ pc' = "install"
                    /\ UNCHANGED <<helperVars, status, result>>
    /\ UNCHANGED <<helperVars, testVars, auxVars, tests_ratio, failures, exc, backend, testEnv>>

\* scorer.py 28-40
WriteFilesystem ==
    /\ pc = "write_filesystem"
    /\ \E output \in ScorerArtifacts :
         LET r == write_filesystem(ProjectDirAbs, output, disk)
         IN /\ fsOutput' = output
            /\ fsState' = IF r.raised THEN "raised" ELSE "returned"
            /\ disk' = r.disk
            /\ Called("write_filesystem", <<>>)
            /\ IF r.raised
               THEN /\ scores' = Append(scores, Score(L_filesystem, Zero))
                    /\ status' = "fail"
                    /\ pc' = "done"
                    /\ result' = "returned"
                    /\ failures' = <<<<"filesystem fail">>>>
                    /\ UNCHANGED passed
               ELSE /\ scores' = Append(scores, Score(L_filesystem, One))
                    /\ passed' = passed \cup {"filesystem"}
                    /\ pc' = "install"
                    /\ UNCHANGED <<helperVars, status, result, failures>>
    /\ UNCHANGED <<helperVars, testVars, auxVars, tests_ratio, exc, backend, testEnv>>

\* scorer.py 42-48
Install ==
    /\ pc = "install"
    /\ \E rc \in ExitCodes :
         ScoredStage("install", L_install, "install",
                     install_dependencies(rc), "codegen")
    /\ UNCHANGED <<helperVars, testVars, auxVars, fsVars, tests_ratio, status, failures, exc, result, backend, testEnv>>

\* the codegen stage followed by the lint stage
Codegen_ThenLint ==
    /\ pc = "codegen"
    /\ \E rc \in ExitCodes :
         ScoredStage("codegen", L_codegen, "codegen", generate_code(rc), "eslint")
    /\ UNCHANGED <<helperVars, testVars, auxVars, fsVars, tests_ratio, status, failures, exc, result, backend, testEnv>>

\* scorer.py 50-56
Codegen ==
    /\ pc = "codegen"
    /\ \E rc \in ExitCodes :
         ScoredStage("codegen", L_codegen, "codegen", generate_code(rc), "tsc")
    /\ UNCHANGED <<helperVars, testVars, auxVars, fsVars, tests_ratio, status, failures, exc, result, backend, testEnv>>

\* scorer.py 58-64
Typecheck ==
    /\ pc = "tsc"
    /\ \E rc1, rc2 \in ExitCodes :
         ScoredStage("tsc", L_tsc, "tsc",
                     typecheck_code(ProjectDirAbs, rc1, rc2, disk), "eslint")
    /\ UNCHANGED <<helperVars, testVars, auxVars, fsVars, tests_ratio, status, failures, exc, result, backend, testEnv>>

\* the eslint stage recording its score under the label of the tsc stage
Lint_TscLabel ==
    /\ pc = "eslint"
    /\ \E rc1, rc2 \in ExitCodes :
         ScoredStage("eslint", L_tsc, "eslint",
                     lint_code(ProjectDirAbs, rc1, rc2, disk), "start_output")
    /\ UNCHANGED <<helperVars, testVars, auxVars, fsVars, tests_ratio, status, failures, exc, result, backend, testEnv>>

\* scorer.py 66-72
Lint ==
    /\ pc = "eslint"
    /\ \E rc1, rc2 \in ExitCodes :
         ScoredStage("eslint", L_eslint, "eslint",
                     lint_code(ProjectDirAbs, rc1, rc2, disk), "start_output")
    /\ UNCHANGED <<helperVars, testVars, auxVars, fsVars, tests_ratio, status, failures, exc, result, backend, testEnv>>

\* scorer.py 74-77: the output backend directory is made and the outer with
\* statement is entered; a failed start raises out of convex_scorer
StartOutputBackend ==
    /\ pc = "start_output"
    /\ \E port \in FreePorts(backend), ok \in BOOLEAN :
         LET dir == OutputBackendDir(Tempdir, Model, Category, Name)
         IN /\ disk' = Makedirs(AbsPath(dir), disk)
            /\ backend' = [backend EXCEPT !["output"] = ConvexBackendEnter(dir, port, ok)]
            /\ IF ok
               THEN pc' = "deploy" /\ UNCHANGED <<exc, result>>
               ELSE pc' = "done" /\ exc' = TRUE /\ result' = "raised"
    /\ Called("start_output", <<>>)
    /\ UNCHANGED <<helperVars, testVars, auxVars, fsOutput, fsState, scores, passed, tests_ratio, status, failures, testEnv>>

\* scorer.py 78-84
Deploy ==
    /\ pc = "deploy"
    /\ \E rc \in ExitCodes :
         ScoredStage("deploy", L_deploy, "deploy", deploy(rc), "setup_answer")
    /\ UNCHANGED <<helperVars, testVars, auxVars, fsVars, tests_ratio, status, failures, exc, result, backend, testEnv>>

\* scorer.py 86-89 and 267-284: setup_answer_backend, not inside a try
SetupAnswerBackend ==
    /\ pc = "setup_answer"
    /\ \E rc \in ExitCodes :
         LET answer_project_dir == AnswerProjectDir(Tempdir, Model, Category, Name)
             answer_backend_dir == AnswerBackendDir(Tempdir, Model, Category, Name)
             answer_dir         == AnswerDir(EvalPath(Category, Name))
             made               == Makedirs(AbsPath(answer_project_dir), disk)
             r                  == generate_code(rc)
         IN /\ Called("setup_answer", r.rcs)
            /\ IF r.raised
               THEN /\ disk' = made
                    /\ exc' = TRUE
                    /\ pc' = "stop_output"
               ELSE /\ disk' = Makedirs(AbsPath(answer_backend_dir),
                                 CopyAll(walk_answer(answer_dir, made), answer_dir,
                                         answer_project_dir, made))
                    /\ pc' = "answer_install"
                    /\ UNCHANGED exc
    /\ UNCHANGED <<helperVars, testVars, auxVars, fsOutput, fsState, scores, passed, tests_ratio, status, failures,
                   result, backend, testEnv>>

\* a helper called inside the outer with statement and outside any try
Unscored(h, r, next) ==
    /\ Called(h, r.rcs)
    /\ IF r.raised
       THEN exc' = TRUE /\ pc' = "stop_output"
       ELSE pc' = next /\ UNCHANGED exc

\* scorer.py 92
AnswerInstall ==
    /\ pc = "answer_install"
    /\ \E rc \in ExitCodes :
         Unscored("answer_install", install_dependencies(rc), "answer_codegen")
    /\ UNCHANGED <<helperVars, testVars, auxVars, fsVars, scores, passed, tests_ratio, status, failures, result,
                   backend, testEnv>>

\* scorer.py 94
AnswerCodegen ==
    /\ pc = "answer_codegen"
    /\ \E rc \in ExitCodes :
         Unscored("answer_codegen", generate_code(rc), "start_answer")
    /\ UNCHANGED <<helperVars, testVars, auxVars, fsVars, scores, passed, tests_ratio, status, failures, result,
                   backend, testEnv>>

\* scorer.py 96: the inner with statement is entered
StartAnswerBackend ==
    /\ pc = "start_answer"
    /\ \E port \in FreePorts(backend), ok \in BOOLEAN :
         LET dir == AnswerBackendDir(Tempdir, Model, Category, Name)
         IN /\ backend' = [backend EXCEPT !["answer"] = ConvexBackendEnter(dir, port, ok)]
            /\ IF ok
               THEN pc' = "answer_deploy" /\ UNCHANGED exc
               ELSE pc' = "stop_output" /\ exc' = TRUE
    /\ Called("start_answer", <<>>)
    /\ UNCHANGED <<helperVars, testVars, auxVars, fsVars, scores, passed, tests_ratio, status, failures, result, testEnv>>

\* scorer.py 98: deploy of the answer, inside both with statements and
\* outside any try
AnswerDeploy ==
    /\ pc = "answer_deploy"
    /\ \E rc \in ExitCodes :
         LET r == deploy(rc)
         IN /\ Called("answer_deploy", r.rcs)
            /\ IF r.raised
               THEN exc' = TRUE /\ pc' = "stop_answer"
               ELSE pc' = "run_tests" /\ UNCHANGED exc
    /\ UNCHANGED <<helperVars, testVars, auxVars, fsVars, scores, passed, tests_ratio, status, failures, result,
                   backend, testEnv>>

\* the port variables run_tests puts into the environment of the runner
TestEnvOf(output_backend, answer_backend) ==
    <<[var |-> "CONVEX_PORT", value |-> output_backend.port],
      [var |-> "CONVEX_ANSWER_PORT", value |-> answer_backend.port]>>

\* the test stage scoring every exception as 0
RunTests_PartialIsZero ==
    /\ pc = "run_tests"
    /\ \E input \in TestOutputs :
         LET r == run_tests(input.rc, input.stdout)
             value == IF r.kind = "return" THEN r.ratio ELSE Zero
         IN /\ trInput' = input
            /\ trResult' = r
            /\ Called("run_tests", r.rcs)
            /\ scores' = Append(scores, Score(L_tests, value))
            /\ tests_ratio' = value
    /\ testEnv' = TestEnvOf(backend["output"], backend["answer"])
    /\ pc' = "status"
    /\ UNCHANGED <<helperVars, auxVars, fsVars, passed, status, failures, exc, result, backend>>

\* scorer.py 99-112
RunTests ==
    /\ pc = "run_tests"
    /\ \E input \in TestOutputs :
         LET r == run_tests(input.rc, input.stdout)
             value == IF r.kind = "Exception" THEN Zero ELSE r.ratio
         IN /\ trInput' = input
            /\ trResult' = r
            /\ Called("run_tests", r.rcs)
            /\ scores' = Append(scores, Score(L_tests, value))
            /\ tests_ratio' = value
    /\ testEnv' = TestEnvOf(backend["output"], backend["answer"])
    /\ pc' = "status"
    /\ UNCHANGED <<helperVars, auxVars, fsVars, passed, status, failures, exc, result, backend>>

\* round(100 * n / d), halves to even, as the format .0% prints a ratio
Percent(r) ==
    LET q   == (100 * r.n) \div r.d
        rem == (100 * r.n) % r.d
    IN IF 2 * rem > r.d \/ (2 * rem = r.d /\ q % 2 = 1) THEN q + 1 ELSE q

\* scorer.py 124-136 (an entry is the sequence of its text blocks)
FailuresOf(flags, ratio) ==
    (IF "install" \in flags THEN <<>> ELSE <<<<"bun install fail">>>>)
    \o (IF "codegen" \in flags THEN <<>> ELSE <<<<"codegen fail">>>>)
    \o (IF "tsc" \in flags THEN <<>> ELSE <<<<"tsc fail">>>>)
    \o (IF "eslint" \in flags THEN <<>> ELSE <<<<"eslint fail">>>>)
    \o (IF "deploy" \in flags THEN <<>> ELSE <<<<"convex dev fail">>>>)
    \o (IF ratio = One THEN <<>> ELSE <<<<"tests fail", Percent(ratio)>>>>)

\* a status line that does not look at the tests ratio
StatusLine_IgnoresTests ==
    /\ pc = "status"
    /\ status' = IF {"filesystem", "install", "codegen", "tsc", "eslint",
                     "deploy"} \subseteq passed
                 THEN "pass" ELSE "fail"
    /\ failures' = FailuresOf(passed, tests_ratio)
    /\ pc' = "stop_answer"
    /\ UNCHANGED <<helperVars, testVars, auxVars, fsVars, scores, passed, tests_ratio, exc, result, calls, runs,
                   backend, testEnv>>

\* scorer.py 114-142
StatusLine ==
    /\ pc = "status"
    /\ status' = IF /\ {"filesystem", "install", "codegen", "tsc", "eslint",
                        "deploy"} \subseteq passed
                    /\ tests_ratio = One
                 THEN "pass" ELSE "fail"
    /\ failures' = FailuresOf(passed, tests_ratio)
    /\ pc' = "stop_answer"
    /\ UNCHANGED <<helperVars, testVars, auxVars, fsVars, scores, passed, tests_ratio, exc, result, calls, runs,
                   backend, testEnv>>

\* the inner with statement left without stopping its instance
StopAnswerBackend_Leak ==
    /\ pc = "stop_answer"
    /\ pc' = "stop_output"
    /\ UNCHANGED <<helperVars, testVars, auxVars, fsVars, scores, passed, tests_ratio, status, failures, exc, result,
                   calls, runs, testEnv, backend>>

\* leaving the inner with statement (scorer.py 96), normally or by exception
StopAnswerBackend ==
    /\ pc = "stop_answer"
    /\ backend' = [backend EXCEPT !["answer"] = ConvexBackendExit(@)]
    /\ pc' = "stop_output"
    /\ UNCHANGED <<helperVars, testVars, auxVars, fsVars, scores, passed, tests_ratio, status, failures, exc, result,
                   calls, runs, testEnv>>

\* leaving the outer with statement (scorer.py 77), then return scores
\* (scorer.py 144) unless an exception is propagating
StopOutputBackend ==
    /\ pc = "stop_output"
    /\ backend' = [backend EXCEPT !["output"] = ConvexBackendExit(@)]
    /\ pc' = "done"
    /\ result' = IF exc THEN "raised" ELSE "returned"
    /\ UNCHANGED <<helperVars, testVars, auxVars, fsVars, scores, passed, tests_ratio, status, failures, exc,
                   calls, runs, testEnv>>

Next ==
    \/ WriteFilesystem
    \/ Install
    \/ Codegen
    \/ Typecheck
    \/ Lint
    \/ StartOutputBackend
    \/ Deploy
    \/ SetupAnswerBackend
    \/ AnswerInstall
    \/ AnswerCodegen
    \/ StartAnswerBackend
    \/ AnswerDeploy
    \/ RunTests
    \/ StatusLine
    \/ StopAnswerBackend
    \/ StopOutputBackend

Spec == Init /\ [][Next]_vars

\* two callers run the deploy helper concurrently
SpecDeploy == Init /\ [][NextDeploy]_vars

\* a harness that calls the deploy helper and then convex_scorer
NextLifecycle ==
    \/ (pc = "write_filesystem" /\ DeployStep("d1"))
    \/ (dpc["d1"] = "done" /\ Next)

SpecLifecycle == Init /\ [][NextLifecycle]_vars

(***************************************************************************)
(* write_filesystem on its own                                             *)
(***************************************************************************)
\* a call of write_filesystem(project_dir, output) for any artifact
InitFS ==
    /\ disk = InitDisk
    /\ fsOutput \in Artifacts
    /\ fsState = "ready"
    /\ InitScorer
    /\ InitHelper
    /\ InitTestRun
    /\ InitAux

FsWrite ==
    /\ fsState = "ready"
    /\ LET r == write_filesystem(ProjectDirAbs, fsOutput, disk)
       IN /\ disk' = r.disk
          /\ fsState' = IF r.raised THEN "raised" ELSE "returned"
    /\ UNCHANGED <<fsOutput, scorerVars, testVars, auxVars, helperVars>>

NextFS == FsWrite

SpecFS == InitFS /\ [][NextFS]_vars

(***************************************************************************)
(* run_tests on its own                                                    *)
(***************************************************************************)
\* a call of run_tests whose runner exits with any code and output
InitTests ==
    /\ disk = InitDisk
    /\ fsOutput = <<>>
    /\ fsState = "ready"
    /\ InitScorer
    /\ InitHelper
    /\ trInput \in TestInputs
    /\ trResult = NoResult
    /\ InitAux

TestRun ==
    /\ trResult.kind = "none"
    /\ trResult' = run_tests(trInput.rc, trInput.stdout)
    /\ UNCHANGED <<trInput, fsVars, scorerVars, helperVars, auxVars>>

NextTests == TestRun

SpecTests == InitTests /\ [][NextTests]_vars

(***************************************************************************)
(* Two pipelines of one eval run                                           *)
(***************************************************************************)
Model2 == <<"m", "2">>

ModelOf(t) == IF t = "t1" THEN Model ELSE Model2

\* the steps of convex_scorer in the order of the code
PipelineSteps ==
    <<"write_filesystem", "install", "codegen", "tsc", "eslint", "start_output",
      "deploy", "setup_answer", "answer_install", "answer_codegen", "start_answer",
      "answer_deploy", "run_tests">>

\* what bun install leaves in its working directory
InstallWrites(cwd) == {AbsPath(PathJoin(cwd, <<"node_modules">>))}

\* what convex codegen and convex dev leave in their working directory
CodegenWrites(cwd) == {AbsPath(PathJoin(cwd, <<"convex", "/", "_generated">>))}

\* what starting a backend on its directory writes
BackendWrites(backend_dir) == {AbsPath(backend_dir), StorageDir(backend_dir)}

\* the files write_filesystem writes for the artifact
FilesystemWrites(project_dir, output) ==
    LET d == Makedirs(AbsPath(project_dir), InitDisk)
    IN DOMAIN write_filesystem(project_dir, output, d).disk.files \ DOMAIN InitDisk.files

\* the destinations of the copy loop of setup_answer_backend
CopyWrites(answer_dir, answer_project_dir) ==
    {AbsPath(PathJoin(answer_project_dir, RelPath(source_path, answer_dir))) :
        source_path \in walk_answer(answer_dir, InitDisk)}

\* the locations step h of the pipeline of a model writes, or has a tool write
StepWrites(h, model, output) ==
    LET output_project_dir == OutputProjectDir(Tempdir, model, Category, Name)
        answer_project_dir == AnswerProjectDir(Tempdir, model, Category, Name)
        answer_dir         == AnswerDir(EvalPath(Category, Name))
    IN CASE h = "write_filesystem" ->
                {AbsPath(output_project_dir)} \cup FilesystemWrites(output_project_dir, output)
         [] h = "install" -> InstallWrites(output_project_dir)
         [] h = "codegen" -> CodegenWrites(output_project_dir)
         [] h = "start_output" ->
                BackendWrites(OutputBackendDir(Tempdir, model, Category, Name))
         [] h = "deploy" -> CodegenWrites(output_project_dir)
         [] h = "setup_answer" ->
                {AbsPath(answer_project_dir)} \cup CodegenWrites(answer_dir)
                \cup CopyWrites(answer_dir, answer_project_dir)
                \cup {AbsPath(AnswerBackendDir(Tempdir, model, Category, Name))}
         [] h = "answer_install" -> InstallWrites(answer_project_dir)
         [] h = "answer_codegen" -> CodegenWrites(answer_project_dir)
         [] h = "start_answer" ->
                BackendWrites(AnswerBackendDir(Tempdir, model, Category, Name))
         [] h = "answer_deploy" -> CodegenWrites(answer_project_dir)
         [] OTHER -> {}

\* the pipeline of task t takes its next step
PipelineStep(t) ==
    /\ wpc[t] < Len(PipelineSteps)
    /\ \E output \in ScorerArtifacts :
         written' = [written EXCEPT ![t] =
                        @ \cup StepWrites(PipelineSteps[wpc[t] + 1], ModelOf(t), output)]
    /\ wpc' = [wpc EXCEPT ![t] = @ + 1]
    /\ UNCHANGED <<fsVars, scorerVars, helperVars, testVars, envVars, unitVars>>

NextShared == \E t \in Tasks : PipelineStep(t)

SpecShared == Init /\ [][NextShared]_vars

(***************************************************************************)
(* The environment of the test runner                                      *)
(***************************************************************************)
\* the state after construction, without the auxiliary specifications
InitBase ==
    /\ disk = InitDisk
    /\ fsOutput = <<>>
    /\ fsState = "ready"
    /\ InitScorer
    /\ InitHelper
    /\ InitTestRun

\* values a port variable may have in the parent environment
InheritedValues == {Str(1), <<"9", "9">>}

\* parent environments: PATH, and each port variable absent or set
Environs ==
    LET withPort == {WithVar(e, "CONVEX_PORT", v) :
                        e \in {[k \in {"PATH"} |-> <<"/", "b">>]}, v \in InheritedValues}
        base     == {[k \in {"PATH"} |-> <<"/", "b">>]} \cup withPort
    IN base \cup {WithVar(e, "CONVEX_ANSWER_PORT", v) : e \in base, v \in InheritedValues}

EnvInputs ==
    [environ : Environs, port : Ports, hasAnswer : {TRUE}, answerPort : Ports]
    \cup [environ : Environs, port : Ports, hasAnswer : {FALSE}, answerPort : {0}]

\* a call of run_tests with any parent environment, with or without an
\* answer backend
InitEnv ==
    /\ InitBase
    /\ InitShared
    /\ InitUnitIdle
    /\ envIn \in EnvInputs
    /\ envOut = [built |-> FALSE, env |-> EmptyEnv]

EnvBuild ==
    /\ ~envOut.built
    /\ envOut' = [built |-> TRUE,
                  env |-> RunnerEnv(envIn.environ, envIn.port, envIn.hasAnswer,
                                    envIn.answerPort)]
    /\ UNCHANGED <<envIn, fsVars, scorerVars, helperVars, testVars, shareVars, unitVars>>

NextEnv == EnvBuild

SpecEnv == InitEnv /\ [][NextEnv]_vars

(***************************************************************************)
(* walk_answer alone                                                       *)
(***************************************************************************)
\* files an answer directory may hold, relative to it: sources, another
\* file, generated code, a dependency, and files in directories whose names
\* contain "_generated" or "node_modules" without being them
WalkFiles == {
    <<"package.json">>,
    <<"convex", "/", "a", ".ts">>,
    <<"convex", "/", "readme">>,
    <<"convex", "/", "_generated", "/", "api", ".ts">>,
    <<"node_modules", "/", "p", "/", "i", ".ts">>,
    <<"convex", "/", "my", "_generated", "/", "b", ".ts">>,
    <<"node_modules", "2", "/", "package.json">> }

\* the disk that holds the answer directory with the files of tree
TreeDisk(tree) ==
    LET answer == AbsPath(AnswerDir(EvalPath(Category, Name)))
        files  == {PathJoin(answer, f) : f \in tree}
    IN [dirs  |-> SelfAndAncestors(answer)
                    \cup UNION {SelfAndAncestors(Dirname(f)) : f \in files},
        files |-> [f \in files |-> "ref"]]

\* a call of walk_answer on any answer directory
InitWalk ==
    /\ walkIn \in SUBSET WalkFiles
    /\ walkOut = NoWalk
    /\ disk = TreeDisk(walkIn)
    /\ fsOutput = <<>>
    /\ fsState = "ready"
    /\ InitScorer
    /\ InitHelper
    /\ InitTestRun
    /\ InitShared
    /\ InitEnvIdle
    /\ InitLogIdle
    /\ InitCliIdle

\* eval_convex_coding.py 46: list(walk_answer(f"{eval_path}/answer"))
WalkAnswer ==
    /\ ~walkOut.done
    /\ walkOut' = [done  |-> TRUE,
                   paths |-> walk_answer(AnswerDir(EvalPath(Category, Name)), disk)]
    /\ UNCHANGED <<walkIn, fsVars, scorerVars, helperVars, testVars, shareVars, envVars,
                   logVars, cliVars>>

NextWalk == WalkAnswer

SpecWalk == InitWalk /\ [][NextWalk]_vars

(***************************************************************************)
(* runner/logging.py                                                       *)
(***************************************************************************)
\* A Python value handed to a logging function: a str (text: its blocks,
\* each "a", a complete escape sequence "ESC" or a line break "NL"), None,
\* an int (text: what str() prints for it), or a list of str (items).
PyStr(t) == [kind |-> "str", text |-> t, items |-> <<>>]
PyNone == [kind |-> "none", text |-> <<"None">>, items |-> <<>>]
PyInt == [kind |-> "int", text |-> <<"5">>, items |-> <<>>]
PyList(l) == [kind |-> "list", text |-> <<>>, items |-> l]

\* logging.py 4-18: the escape sequences are removed from a str; re.sub
\* raises TypeError for any other value, and the value is returned as it is
sanitize_output(text) ==
    IF text.kind = "str"
    THEN PyStr(SelectSeq(text.text, LAMBDA b : b # "ESC"))
    ELSE text

\* logging.py 21-30: the log file after append_log; open() fails for a path
\* that cannot be written, f.write for a value that is not a str, and the
\* exception is discarded
append_log(log_path, text, file) ==
    IF log_path # "ok" THEN file
    ELSE LET sanitized == sanitize_output(text)
         IN IF sanitized.kind # "str" THEN file
            ELSE file \o sanitized.text
                      \o (IF EndsWith(sanitized.text, <<"NL">>) THEN <<>> ELSE <<"NL">>)

\* str.splitlines()
RECURSIVE Splitlines(_)
Splitlines(t) ==
    IF t = <<>> THEN <<>>
    ELSE LET breaks == {i \in 1..Len(t) : t[i] = "NL"}
         IN IF breaks = {} THEN <<t>>
            ELSE LET i == CHOOSE j \in breaks : \A k \in breaks : j <= k
                 IN <<SubSeq(t, 1, i - 1)>> \o Splitlines(SubSeq(t, i + 1, Len(t)))

\* how a logging call ended: the exception that left it ("" for a normal
\* return) and the log file after it
Ended(exception, file) == [exc |-> exception, log |-> file]

\* the loop of append_log_block over the lines
RECURSIVE AppendLines(_, _, _, _)
AppendLines(log_path, prefix, lines, file) ==
    IF lines = <<>> THEN file
    ELSE AppendLines(log_path, prefix, Tail(lines),
                     append_log(log_path, PyStr(<<"[", prefix, "] ">> \o Head(lines)), file))

\* logging.py 33-38: sanitize_output hands back a value that is not a str
\* unchanged, and .splitlines() on it raises AttributeError
append_log_block(log_path, prefix, content, file) ==
    IF content.kind = "none" THEN Ended("", file)
    ELSE LET sanitized == sanitize_output(content)
         IN IF sanitized.kind # "str" THEN Ended("AttributeError", file)
            ELSE Ended("", AppendLines(log_path, prefix, Splitlines(sanitized.text), file))

\* " ".join(parts)
RECURSIVE JoinSpace(_)
JoinSpace(parts) ==
    IF parts = <<>> THEN <<>>
    ELSE IF Len(parts) = 1 THEN parts[1]
    ELSE parts[1] \o <<" ">> \o JoinSpace(Tail(parts))

\* logging.py 46-49: " ".join(cmd), and str(cmd) when it raises
CmdStr(cmd) ==
    CASE cmd.kind = "list" -> JoinSpace(cmd.items)
      [] cmd.kind = "str"  -> JoinSpace([i \in 1..Len(cmd.text) |-> <<cmd.text[i]>>])
      [] OTHER             -> cmd.text

\* logging.py 45-54: the loop over the results; an entry that is not a
\* sequence of two values cannot be unpacked
RECURSIVE LogEntries(_, _, _, _, _)
LogEntries(log_path, entries, prefix, cmd_prefix, file) ==
    IF entries = <<>> THEN Ended("", file)
    ELSE LET entry == Head(entries)
         IN IF Len(entry) # 2 THEN Ended("ValueError", file)
            ELSE LET cmd_str == CmdStr(entry[1])
                     logged  == append_log(log_path,
                                           PyStr(<<"[cmd] ">> \o cmd_prefix \o cmd_str), file)
                     block   == append_log_block(log_path, prefix, entry[2], logged)
                 IN IF block.exc # "" THEN block
                    ELSE LogEntries(log_path, Tail(entries), prefix, cmd_prefix, block.log)

\* logging.py 41-54; results is None, an int or a list of entries
log_cmd_results(log_path, results, prefix, cmd_prefix, file) ==
    CASE results.kind = "none" -> Ended("", file)
      [] results.kind = "int"  -> Ended("TypeError", file)
      [] OTHER -> LogEntries(log_path, results.items, prefix, cmd_prefix, file)

\* sequences over S of length at most n
SeqsUpTo(S, n) == UNION {[1..k -> S] : k \in 0..n}

Texts == SeqsUpTo({"a", "ESC", "NL"}, MaxText)

LogContents == {PyStr(t) : t \in Texts} \cup {PyNone, PyInt}

Cmds == {PyList(<<<<"bun">>, <<"install">>>>), PyStr(<<"a", "b">>), PyInt}

Stdouts == {PyStr(<<"ESC", "a">>), PyStr(<<"a", "NL">>), PyNone, PyInt}

\* entries of a results list: (cmd, stdout) pairs, and tuples of one and
\* of three values
ResultEntries ==
    {<<c, o>> : c \in Cmds, o \in Stdouts}
    \cup {<<PyStr(<<"a">>)>>, <<PyStr(<<"a">>), PyNone, PyNone>>}

ResultsValues ==
    {PyList(l) : l \in SeqsUpTo(ResultEntries, MaxResults)} \cup {PyNone, PyInt}

LogPaths == {"ok", "unwritable"}

LogCall(fn, log_path, content, results, cmd_prefix) ==
    [fn |-> fn, log_path |-> log_path, content |-> content, results |-> results,
     cmd_prefix |-> cmd_prefix]

LogCalls ==
    {LogCall("sanitize_output", "ok", c, PyNone, <<>>) : c \in LogContents}
    \cup {LogCall(fn, path, c, PyNone, <<>>) :
            fn \in {"append_log", "append_log_block"}, path \in LogPaths, c \in LogContents}
    \cup {LogCall("log_cmd_results", path, PyNone, r, cp) :
            path \in LogPaths, r \in ResultsValues, cp \in {<<>>, <<"x ">>}}

LogEnded(outcome, value) ==
    [state |-> IF outcome.exc = "" THEN "returned" ELSE "raised",
     exc |-> outcome.exc, value |-> value, log |-> outcome.log]

\* one call of a logging function, on an empty log file
InitLog ==
    /\ logIn \in LogCalls
    /\ logOut = NoLogOut
    /\ InitBase
    /\ InitShared
    /\ InitEnvIdle
    /\ InitWalkIdle
    /\ InitCliIdle

SanitizeOutput ==
    /\ logIn.fn = "sanitize_output" /\ logOut.state = "idle"
    /\ logOut' = LogEnded(Ended("", <<>>), sanitize_output(logIn.content))
    /\ UNCHANGED <<logIn, fsVars, scorerVars, helperVars, testVars, shareVars, envVars,
                   walkVars, cliVars>>

AppendLog ==
    /\ logIn.fn = "append_log" /\ logOut.state = "idle"
    /\ logOut' = LogEnded(Ended("", append_log(logIn.log_path, logIn.content, <<>>)), PyNone)
    /\ UNCHANGED <<logIn, fsVars, scorerVars, helperVars, testVars, shareVars, envVars,
                   walkVars, cliVars>>

AppendLogBlock ==
    /\ logIn.fn = "append_log_block" /\ logOut.state = "idle"
    /\ logOut' = LogEnded(append_log_block(logIn.log_path, "out", logIn.content, <<>>),
                          PyNone)
    /\ UNCHANGED <<logIn, fsVars, scorerVars, helperVars, testVars, shareVars, envVars,
                   walkVars, cliVars>>

LogCmdResults ==
    /\ logIn.fn = "log_cmd_results" /\ logOut.state = "idle"
    /\ logOut' = LogEnded(log_cmd_results(logIn.log_path, logIn.results, "out",
                                          logIn.cmd_prefix, <<>>), PyNone)
    /\ UNCHANGED <<logIn, fsVars, scorerVars, helperVars, testVars, shareVars, envVars,
                   walkVars, cliVars>>

NextLog == SanitizeOutput \/ AppendLog \/ AppendLogBlock \/ LogCmdResults

SpecLog == InitLog /\ [][NextLog]_vars

(***************************************************************************)
(* The eval-scaffolding CLI: main() of create_eval.py                      *)
(***************************************************************************)
\* f"{n:03d}"
Pad3(n) == <<Digit(n \div 100), Digit((n \div 10) % 10), Digit(n % 10)>>

DigitValue(c) == CHOOSE d \in 0..9 : Digit(d) = c

\* int(s) for a string of decimal digits
RECURSIVE ParseInt(_)
ParseInt(s) ==
    IF s = <<>> THEN 0
    ELSE 10 * ParseInt(SubSeq(s, 1, Len(s) - 1)) + DigitValue(s[Len(s)])

\* existing_name.split("-")[0]
BeforeDash(s) ==
    LET dashes == {i \in 1..Len(s) : s[i] = "-"}
    IN IF dashes = {} THEN s
       ELSE SubSeq(s, 1, (CHOOSE i \in dashes : \A j \in dashes : i <= j) - 1)

\* lines 42-46: the directory name main() computes from the listing of the
\* category directory
TestdirName(tree, name) ==
    LET existing == {ParseInt(BeforeDash(existing_name)) : existing_name \in DOMAIN tree}
        next_id  == IF existing # {} THEN Max(existing) + 1 ELSE 0
    IN Pad3(next_id) \o <<"-">> \o name

\* the name argument of the CLI
CliName == <<"n">>

\* the files of a finished eval
EvalFiles == {"TASK.txt", "answer", "grader.test.ts", "GAPS.txt"}

\* the category directory with k finished evals
ExistingTree(k) ==
    [d \in {Pad3(i) \o <<"-", "e">> : i \in 0..(k - 1)} |-> EvalFiles]

\* the step numbers of main(), in the order of its statements
CliSteps == <<1, 2, 3, 4, 5, 6, 7, 8, 10>>

StartSteps == 1..10

\* lines 26-27
should_run_step(step_num, start_step) == step_num >= start_step

HasFile(tree, dir, f) == dir \in DOMAIN tree /\ f \in tree[dir]

\* a file or directory f made in dir, with the parents that os.makedirs and
\* the steps before made
AddFile(tree, dir, f) ==
    [d \in DOMAIN tree \cup {dir} |->
        IF d = dir THEN (IF dir \in DOMAIN tree THEN tree[dir] ELSE {}) \cup {f}
        ELSE tree[d]]

\* what the action of step n does to the category directory, and whether
\* its file operations succeed
StepEffect(n, testdir, tree) ==
    CASE n = 1 -> \* line 50: os.makedirs(testdir)
           IF testdir \in DOMAIN tree THEN [ok |-> FALSE, tree |-> tree]
           ELSE [ok |-> TRUE,
                 tree |-> [d \in DOMAIN tree \cup {testdir} |->
                              IF d = testdir THEN {} ELSE tree[d]]]
      [] n = 3 -> \* lines 65-66: open(task_file, "w")
           IF testdir \notin DOMAIN tree THEN [ok |-> FALSE, tree |-> tree]
           ELSE [ok |-> TRUE, tree |-> AddFile(tree, testdir, "TASK.txt")]
      [] n = 4 -> \* lines 74-90: os.makedirs(answer_dir) makes the parents
           IF HasFile(tree, testdir, "answer") THEN [ok |-> FALSE, tree |-> tree]
           ELSE [ok |-> TRUE, tree |-> AddFile(tree, testdir, "answer")]
      [] n = 5 -> \* lines 96-104: open(task_file, "r"), then the answer files
           IF ~HasFile(tree, testdir, "TASK.txt") THEN [ok |-> FALSE, tree |-> tree]
           ELSE [ok |-> TRUE, tree |-> AddFile(tree, testdir, "answer")]
      [] n = 6 -> \* lines 113-132: open(task_file, "r"), open(grader_file, "w")
           IF ~HasFile(tree, testdir, "TASK.txt") THEN [ok |-> FALSE, tree |-> tree]
           ELSE [ok |-> TRUE, tree |-> AddFile(tree, testdir, "grader.test.ts")]
      [] n = 7 -> \* lines 141-158: commands run with cwd=answer_dir
           [ok |-> HasFile(tree, testdir, "answer"), tree |-> tree]
      [] n = 8 -> \* lines 189-191: open(gaps_file, "w")
           IF testdir \notin DOMAIN tree THEN [ok |-> FALSE, tree |-> tree]
           ELSE [ok |-> TRUE, tree |-> AddFile(tree, testdir, "GAPS.txt")]
      [] n = 10 -> \* lines 197-198: git add testdir, check=True
           [ok |-> testdir \in DOMAIN tree, tree |-> tree]
      [] OTHER -> [ok |-> TRUE, tree |-> tree]

\* the category directory before the CLI is first run
InitCli ==
    /\ evalsTree \in {ExistingTree(k) : k \in 0..MaxExisting}
    /\ cli = NoCli
    /\ cliHist = <<>>
    /\ InitBase
    /\ InitShared
    /\ InitEnvIdle
    /\ InitWalkIdle
    /\ InitLogIdle

\* lines 16-47: main() is started with a category, a name and a start step;
\* for a category that does not exist os.listdir(category_dir) raises
CliMain ==
    /\ cli.state \in {"idle", "done", "raised"}
    /\ Len(cliHist) < MaxRuns
    /\ \E start_step \in StartSteps, new_category \in BOOLEAN :
         IF new_category
         THEN /\ cli' = [NoCli EXCEPT !.state = "raised", !.start_step = start_step]
              /\ cliHist' = Append(cliHist, cli')
         ELSE /\ cli' = [state |-> "running", start_step |-> start_step, pc |-> 1,
                         testdir |-> TestdirName(evalsTree, CliName), ran |-> <<>>]
              /\ UNCHANGED cliHist
    /\ UNCHANGED <<evalsTree, fsVars, scorerVars, helperVars, testVars, shareVars, envVars,
                   walkVars, logVars>>

\* the run after the statement of step pc: at the next step, or done
Advanced(run) ==
    IF run.pc = Len(CliSteps) THEN [run EXCEPT !.state = "done"]
    ELSE [run EXCEPT !.pc = @ + 1]

\* lines 48-198: the statement of the next step. A step below start_step is
\* skipped. The action of a step that runs can fail in its file operations,
\* and every step but the first also in a command it runs, in a call of the
\* model or by an interrupt at a prompt, before or after it wrote its files.
CliStep ==
    /\ cli.state = "running"
    /\ LET n == CliSteps[cli.pc]
           e == StepEffect(n, cli.testdir, evalsTree)
           run == [cli EXCEPT !.ran = Append(@, n)]
       IN IF ~should_run_step(n, cli.start_step)
          THEN /\ cli' = Advanced(cli)
               /\ UNCHANGED evalsTree
          ELSE \E ok \in (IF n = 1 THEN {TRUE} ELSE BOOLEAN) :
                 IF ok /\ e.ok
                 THEN /\ cli' = Advanced(run)
                      /\ evalsTree' = e.tree
                 ELSE /\ cli' = [run EXCEPT !.state = "raised"]
                      /\ evalsTree' \in {evalsTree, e.tree}
    /\ cliHist' = IF cli'.state = "running" THEN cliHist ELSE Append(cliHist, cli')
    /\ UNCHANGED <<fsVars, scorerVars, helperVars, testVars, shareVars, envVars,
                   walkVars, logVars>>

NextCli == CliMain \/ CliStep

SpecCli == InitCli /\ [][NextCli]_vars

(***************************************************************************)
(* Properties                                                              *)
(***************************************************************************)
\* files of the disk that lie outside the project root and were not there
\* before the evaluation
FilesOutside(d, root) ==
    {p \in DOMAIN d.files : ~IsInside(p, root) /\ ~IsFile(p, InitDisk)}

\* entries of the artifact that resolve outside the project root
EntriesOutside(output, root) ==
    {i \in 1..Len(output) : ~IsInside(FilePath(root, output[i].path), root)}

\* C1: write_filesystem never writes a file outside the project root, and an
\* entry that resolves outside the root makes the call raise
C1_NoWriteOutsideRoot ==
    /\ FilesOutside(disk, ProjectDirAbs) = {}
    /\ (fsState = "returned" => EntriesOutside(fsOutput, ProjectDirAbs) = {})

IsPrefix(s, t) == Len(s) <= Len(t) /\ SubSeq(t, 1, Len(s)) = s

HasScore(label) == \E i \in 1..Len(scores) : scores[i].name = label

\* the value recorded under the label
ScoreValue(label) ==
    scores[CHOOSE i \in 1..Len(scores) : scores[i].name = label].score

\* the helper ran at least one command and all of them exited zero
ExitedZero(h) == runs[h] # <<>> /\ \A i \in 1..Len(runs[h]) : runs[h][i] = 0

BuildStages == {"install", "codegen", "tsc", "eslint"}

LabelOf(h) ==
    CASE h = "install" -> L_install
      [] h = "codegen" -> L_codegen
      [] h = "tsc"     -> L_tsc
      [] h = "eslint"  -> L_eslint
      [] h = "deploy"  -> L_deploy

\* the backend instance of the role failed to start
StartFailed(r) == backend[r].spawned = 1 /\ ~backend[r].started

\* the build stages are behind convex_scorer
BuildOver ==
    /\ fsState = "returned"
    /\ pc \notin {"write_filesystem", "install", "codegen", "tsc", "eslint"}

C3_AllBuildStagesRun ==
    /\ \A h \in BuildStages : calls[h] <= 1
    /\ BuildOver =>
         /\ \A h \in BuildStages : calls[h] = 1 /\ runs[h] # <<>> /\ HasScore(LabelOf(h))
         /\ (/\ ExitedZero("install") /\ ExitedZero("codegen")
             /\ ~ExitedZero("tsc") /\ ExitedZero("eslint"))
            => {h \in BuildStages : ScoreValue(LabelOf(h)) = Zero} = {"tsc"}

\* install and codegen succeeded, typecheck failed, lint ran and succeeded
C3_Witness ==
    /\ BuildOver
    /\ ExitedZero("install") /\ ExitedZero("codegen")
    /\ ~ExitedZero("tsc") /\ ExitedZero("eslint")

\* the helper convex_scorer calls after each scored stage
AfterStage(h) ==
    CASE h = "install" -> "codegen"
      [] h = "codegen" -> "tsc"
      [] h = "tsc"     -> "eslint"
      [] h = "eslint"  -> "start_output"
      [] h = "deploy"  -> "setup_answer"

\* a step of the answer side failed: a backend did not start, or a command
\* of the answer project exited non-zero
AnswerSideFailed ==
    \/ \E r \in Roles : StartFailed(r)
    \/ \E h \in {"setup_answer", "answer_install", "answer_codegen", "answer_deploy"} :
         runs[h] # <<>> /\ ~ExitedZero(h)

C5_AppendOnlyAndReported ==
    [][IsPrefix(scores, scores') /\ (pc' = "done" => result' = "returned")]_vars

\* C6: if write_filesystem raises, convex_scorer returns the single score
\* 'Valid filesystem output' = 0, runs no command and starts no backend
C6_FilesystemFailureIsFatal ==
    fsState = "raised" =>
        /\ pc = "done" /\ result = "returned"
        /\ scores = <<Score(L_filesystem, Zero)>>
        /\ \A h \in Helpers \ {"write_filesystem"} : calls[h] = 0 /\ runs[h] = <<>>
        /\ \A r \in Roles : backend[r].spawned = 0

\* write_filesystem raised inside convex_scorer
C6_Witness == fsState = "raised" /\ calls["write_filesystem"] = 1 /\ pc = "done"

\* C7: after the filesystem stage no failure propagates out of convex_scorer,
\* which always returns its score vector
C7_NothingPropagates == result # "raised"

\* C8: a backend that fails to start shows as a 0 for the deploy stage, the
\* test comparison is skipped or scored 0, and the evaluation still reports
\* the scores of the build stages
C8_StartFailureScored ==
    (pc = "done" /\ \E r \in Roles : StartFailed(r)) =>
        /\ result = "returned"
        /\ HasScore(L_deploy)
        /\ (StartFailed("output") => ScoreValue(L_deploy) = Zero)
        /\ (HasScore(L_tests) => ScoreValue(L_tests) = Zero)
        /\ \A h \in BuildStages : HasScore(LabelOf(h))

\* the backend processes of the deploy helper that have not exited
Alive(d) == proc[d].state \in {"starting", "serving"}

\* C9: two pipelines of distinct tasks never have instances on the same port
\* or the same storage directory at the same time
C9_NoSharedPortOrStorage ==
    \A d, e \in Deployers :
        (TaskOf(d) # TaskOf(e) /\ Alive(d) /\ Alive(e)) =>
            /\ proc[d].port # proc[e].port
            /\ proc[d].storage # proc[e].storage

BothRunning == backend["output"].state = "running" /\ backend["answer"].state = "running"

ParsedReport(input) == json_loads(CleanStdout(input.stdout))

\* a report with numTotalTests and numPassedTests is parsed from the output
ReportParsed(input) == ParsedReport(input).ok /\ ParsedReport(input).value.counts

\* the pass ratio of a parsed report
RatioOf(report) ==
    IF report.total > 0 THEN Frac(report.passed, report.total) ELSE Zero

Below(r, s) == r.n * s.d < s.n * r.d

TestsRan == trResult.kind # "none"

\* C11: when a report with its two counts is parsed from the output of the
\* runner, run_tests returns 1 if the ratio passed/total is 1, and raises
\* TestsFailedException carrying that ratio if the ratio is below 1, whatever
\* else the report holds
C11_PartialFailureCarriesRatio ==
    (TestsRan /\ ReportParsed(trInput)) =>
        LET ratio == RatioOf(ParsedReport(trInput).value)
        IN /\ ratio = One => (trResult.kind = "return" /\ trResult.ratio = One)
           /\ Below(ratio, One) =>
                (trResult.kind = "TestsFailedException" /\ trResult.ratio = ratio)

\* C12: for a parsed report whose numTotalTests is 0, an empty testResults
\* list included, the ratio is 0 and run_tests ends with the partial failure
\* carrying 0, not with another error; for a positive total the ratio carried
\* or returned is passed/total
C12_ZeroTotalIsRatioZero ==
    (TestsRan /\ ReportParsed(trInput)) =>
        LET report == ParsedReport(trInput).value
        IN /\ report.total = 0 =>
                (trResult.kind = "TestsFailedException" /\ trResult.ratio = Zero)
           /\ (report.total > 0 /\ trResult.kind \in {"return", "TestsFailedException"}) =>
                trResult.ratio = Frac(report.passed, report.total)

\* C13: convex_scorer appends to "Tests pass" the ratio run_tests returns or
\* the ratio a TestsFailedException carries, appends 0 for any other
\* exception, and goes on to return normally in each case
C13_PartialFailureNotFatal ==
    TestsRan =>
        /\ HasScore(L_tests)
        /\ ScoreValue(L_tests) = (IF trResult.kind \in {"return", "TestsFailedException"}
                                  THEN trResult.ratio ELSE Zero)
        /\ tests_ratio = ScoreValue(L_tests)
        /\ ~exc
        /\ pc = "done" => result = "returned"

\* a partial failure with a ratio strictly between 0 and 1 was scored and the
\* scorer returned
C13_Witness ==
    /\ trResult.kind = "TestsFailedException"
    /\ Below(Zero, trResult.ratio) /\ Below(trResult.ratio, One)
    /\ ScoreValue(L_tests) = trResult.ratio
    /\ pc = "done" /\ result = "returned"

\* C14: when no report with its two counts can be parsed from the output of
\* the runner, run_tests raises a plain Exception, never TestsFailedException;
\* its text quotes the raw output if the runner exited non-zero and names the
\* parse error if it exited zero; convex_scorer records 0 under "Tests pass"
C14_UnparseableIsToolingFailure ==
    (TestsRan /\ ~ReportParsed(trInput)) =>
        /\ trResult.kind = "Exception"
        /\ trInput.rc # 0 =>
             (trResult.message = <<"Failed to run tests:", "LF">>
              /\ trResult.raw = trInput.stdout)
        /\ trInput.rc = 0 =>
             (trResult.message[1] = "Failed to parse tests results: "
              /\ trResult.raw = <<>>)
        /\ HasScore(L_tests) /\ ScoreValue(L_tests) = Zero

\* the runner exited zero after printing a report behind a text with a brace,
\* the parse failed and the scorer returned with 0 for the tests
C14_Witness ==
    /\ trInput.hasReport /\ trInput.rc = 0
    /\ ~ReportParsed(trInput)
    /\ trResult.kind = "Exception"
    /\ Head(trResult.message) = "Failed to parse tests results: "
    /\ ScoreValue(L_tests) = Zero
    /\ pc = "done" /\ result = "returned"

\* the tests of every file of a report, in order
RECURSIVE AllTests(_)
AllTests(files) ==
    IF files = <<>> THEN <<>> ELSE Head(files) \o AllTests(Tail(files))

\* the report of four tests of which three passed and T4 failed with boom
FourTestsReport ==
    [counts |-> TRUE, total |-> 4, passed |-> 3,
     testResults |-> <<<<PassedTest("T1"), PassedTest("T2"), PassedTest("T3"),
                         FailedTest("T4", <<"boom">>)>>>>]

\* C15: when the ratio is below 1 the message of the TestsFailedException
\* holds, for every failed test of the report, the text "<title>: <failure
\* message>", and the title of no passed test; for the report of four tests
\* with three passed and T4 failed with boom the ratio is 3/4 and the message
\* contains "T4: boom"
C15_MessageListsFailedTests ==
    (TestsRan /\ ReportParsed(trInput)) =>
        LET report == ParsedReport(trInput).value
            tests  == AllTests(report.testResults)
        IN /\ trResult.kind = "TestsFailedException" =>
                \A i \in 1..Len(tests) :
                    IF tests[i].status = "failed"
                    THEN Contains(trResult.message,
                                  <<tests[i].title, ": ", tests[i].failureMessages[1]>>)
                    ELSE ~Contains(trResult.message, <<tests[i].title>>)
           /\ report = FourTestsReport =>
                /\ trResult.kind = "TestsFailedException"
                /\ trResult.ratio = Frac(3, 4)
                /\ Contains(trResult.message, <<"T4", ": ", "boom">>)

\* the outcome of run_tests apart from the runner output an error quotes
SameOutcome(r, s) == r.kind = s.kind /\ r.ratio = s.ratio /\ r.message = s.message

\* the report embedded in the output is what run_tests extracts and parses
ReportExtracted ==
    /\ CleanStdout(trInput.stdout) = Encode(trInput.report)
    /\ ParsedReport(trInput).ok
    /\ ParsedReport(trInput).value = trInput.report
    /\ SameOutcome(trResult, run_tests(trInput.rc, Encode(trInput.report)))

\* C16 as stated: for an output made of any leading text, one well-formed
\* report and any trailing text, braces in those texts included, run_tests
\* extracts and parses the embedded report
C16_ExtractsFirstBalanced ==
    (TestsRan /\ trInput.hasReport) => ReportExtracted

\* C16 amended: run_tests extracts the text from the first opening brace to
\* the last closing brace of the output; this is the embedded report, which
\* is then parsed, when the leading text holds no opening brace and the
\* trailing text no closing brace
C16_ExtractsFirstToLastBrace ==
    (TestsRan /\ trInput.hasReport
     /\ Positions(trInput.lead, "{") = {} /\ Positions(trInput.trail, "}") = {})
        => ReportExtracted

\* a report with nested objects, between a leading text with a closing brace
\* and a trailing text with an opening brace, was extracted and parsed
C16_Witness ==
    /\ TestsRan /\ trInput.hasReport
    /\ trInput.lead = <<RBrace, Noise>> /\ trInput.trail = <<LBrace, Noise>>
    /\ trInput.report = FourTestsReport
    /\ trResult.kind = "TestsFailedException" /\ trResult.ratio = Frac(3, 4)

\* C17: every score in the vector lies between 0 and 1, whatever the stages
\* did and whatever counts the test report holds
C17_ScoresWithinUnitInterval ==
    \A i \in 1..Len(scores) :
        ~Below(scores[i].score, Zero) /\ ~Below(One, scores[i].score)

\* C18: the scopes of the two backends are nested: the candidate backend is
\* running whenever the answer project is set up and whenever the answer
\* backend is started or running, both are running when the test runner is
\* invoked, and the answer backend is stopped before the candidate backend
C18_BackendScopesNested ==
    /\ calls["setup_answer"] >= 1 => backend["output"].started
    /\ backend["answer"].spawned >= 1 =>
         (backend["output"].started /\ calls["setup_answer"] >= 1)
    /\ backend["answer"].state = "running" => backend["output"].state = "running"
    /\ pc \in {"setup_answer", "answer_install", "answer_codegen", "start_answer"} =>
         backend["output"].state = "running"
    /\ pc = "run_tests" => BothRunning
    /\ (pc = "status" /\ calls["run_tests"] = 1) => BothRunning
    /\ (backend["output"].started /\ backend["output"].state = "stopped") =>
         backend["answer"].state \in {"none", "stopped"}

\* after the tests the answer backend has been stopped and the candidate
\* backend is still running
C18_Witness ==
    /\ calls["run_tests"] = 1
    /\ backend["answer"].started /\ backend["answer"].state = "stopped"
    /\ backend["output"].state = "running"

\* the steps of a task, in the order of the code
StepOrder ==
    <<"write_filesystem", "install", "codegen", "tsc", "eslint", "start_output",
      "deploy", "setup_answer", "answer_install", "answer_codegen", "start_answer",
      "answer_deploy", "run_tests">>

LabelOrder ==
    <<L_filesystem, L_install, L_codegen, L_tsc, L_eslint, L_deploy, L_tests>>

\* C19: a step is run at most once and only after every step before it in the
\* fixed order; one step of the scorer runs the commands of one helper only,
\* and they have exited when the step ends; the labels of the vector are in
\* the order of the steps
C19_FixedStepOrder ==
    [][/\ \A j \in 1..Len(StepOrder) :
            /\ calls'[StepOrder[j]] <= 1
            /\ calls'[StepOrder[j]] = 1 =>
                 \A i \in 1..(j - 1) : calls'[StepOrder[i]] = 1
            /\ calls'[StepOrder[j]] = 0 => runs'[StepOrder[j]] = <<>>
       /\ \A g, h \in Helpers :
            (runs'[g] # runs[g] /\ runs'[h] # runs[h]) => g = h
       /\ \A h \in Helpers :
            runs'[h] # runs[h] => (calls[h] = 0 /\ calls'[h] = 1)
       /\ IsPrefix([i \in 1..Len(scores') |-> scores'[i].name], LabelOrder)
      ]_vars

\* every step was run and the vector holds the seven labels
C19_Witness ==
    /\ \A h \in Helpers : calls[h] = 1
    /\ Len(scores) = Len(LabelOrder)
    /\ pc = "done" /\ result = "returned"

\* C20: when the readiness probe fails, or the spawned process has exited
\* when it is polled, the helper raises and does not run the deploy command;
\* the deploy command is run only after the probe succeeded and the process
\* was seen running
C20_DeployOnlyAfterProbeAndPoll ==
    \A d \in Deployers :
        /\ (dlog[d].probeFailed \/ dlog[d].exitedAtPoll) =>
             /\ dexc[d]
             /\ dlog[d].deploys = 0
             /\ dpc[d] \in {"finally", "done"}
             /\ dpc[d] = "done" => dres[d] = "raised"
        /\ dlog[d].deploys >= 1 =>
             (dlog[d].probed /\ dlog[d].polled /\ ~dlog[d].exitedAtPoll)
        /\ dpc[d] = "deploy" => (dlog[d].probed /\ dlog[d].polled)

\* a call whose probe was answered but whose own process had exited when
\* polled has raised without deploying
C20_Witness ==
    \E d \in Deployers :
        /\ dlog[d].probed /\ dlog[d].exitedAtPoll
        /\ dlog[d].deploys = 0
        /\ dpc[d] = "done" /\ dres[d] = "raised"

\* C21: two pipelines running for two models on the same category and name
\* never write, or have an external tool write, to a common location
C21_NoCommonLocation == written["t1"] \cap written["t2"] = {}

\* every entry's file is on the disk with the content of the entry
AllEntriesWritten(output, root, d) ==
    \A i \in 1..Len(output) :
        LET file_path == FilePath(root, output[i].path)
        IN IsFile(file_path, d) /\ d.files[file_path] = output[i].content

\* C22 as stated: for an artifact whose paths all resolve inside the project
\* root, write_filesystem returns without error and every entry's file then
\* holds the entry's content, also when one entry's path is a parent
\* directory of another's or two keys normalize to the same path
C22_InRootArtifactWritten ==
    (fsState # "ready" /\ EntriesOutside(fsOutput, ProjectDirAbs) = {}) =>
        (fsState = "returned" /\ AllEntriesWritten(fsOutput, ProjectDirAbs, disk))

\* no entry resolves to the root, to the file of another entry or to a parent
\* directory of the file of another entry
NoPathConflict(output, root) ==
    \A i \in 1..Len(output) :
        /\ FilePath(root, output[i].path) # root
        /\ \A j \in 1..Len(output) :
             i # j => ~IsInside(FilePath(root, output[j].path),
                                FilePath(root, output[i].path))

\* C22 amended: for an artifact whose paths all resolve inside the project
\* root, none of them to the root itself, to the path of another entry or to
\* a parent directory of the path of another entry, write_filesystem returns
\* without error and every entry's file then holds the entry's content
C22_DisjointInRootArtifactWritten ==
    (/\ fsState # "ready"
     /\ EntriesOutside(fsOutput, ProjectDirAbs) = {}
     /\ NoPathConflict(fsOutput, ProjectDirAbs)) =>
        (fsState = "returned" /\ AllEntriesWritten(fsOutput, ProjectDirAbs, disk))

\* two entries, one of them in a subdirectory, were written with different
\* contents
C22_Witness ==
    /\ fsState = "returned"
    /\ Len(fsOutput) = 2
    /\ fsOutput[1].path = <<"src", "/", "a">> /\ fsOutput[2].path = <<".", "/", "a">>
    /\ fsOutput[1].content # fsOutput[2].content
    /\ AllEntriesWritten(fsOutput, ProjectDirAbs, disk)

\* C23: the environment passed to the runner has CONVEX_PORT equal to the
\* port of the candidate backend; it has CONVEX_ANSWER_PORT, equal to the port
\* of the answer backend, if an answer backend is given, and does not have it
\* otherwise, whatever the parent environment holds
C23_RunnerPortVariables ==
    envOut.built =>
        /\ "CONVEX_PORT" \in DOMAIN envOut.env
        /\ envOut.env["CONVEX_PORT"] = Str(envIn.port)
        /\ IF envIn.hasAnswer
           THEN /\ "CONVEX_ANSWER_PORT" \in DOMAIN envOut.env
                /\ envOut.env["CONVEX_ANSWER_PORT"] = Str(envIn.answerPort)
           ELSE "CONVEX_ANSWER_PORT" \notin DOMAIN envOut.env

\* the secondary tree of the project under evaluation
SrcDir == AbsPath(PathJoin(ProjectDirAbs, <<"src">>))

\* C24: the typecheck stage and the lint stage run their command once, and a
\* second time if and only if the directory src exists in the project and the
\* first run exited zero; the score of the stage is 1 if every run made exited
\* zero and 0 otherwise
C24_SecondRunIffSrcDirectory ==
    \A h \in {"tsc", "eslint"} :
        calls[h] = 1 =>
            /\ Len(runs[h]) \in {1, 2}
            /\ Len(runs[h]) = 2 <=> (IsDir(SrcDir, disk) /\ runs[h][1] = 0)
            /\ HasScore(LabelOf(h))
            /\ ScoreValue(LabelOf(h)) = (IF ExitedZero(h) THEN One ELSE Zero)

\* the name the status line gives a stage
FailureOf(label) ==
    CASE label = L_filesystem -> <<"filesystem fail">>
      [] label = L_install    -> <<"bun install fail">>
      [] label = L_codegen    -> <<"codegen fail">>
      [] label = L_tsc        -> <<"tsc fail">>
      [] label = L_eslint     -> <<"eslint fail">>
      [] label = L_deploy     -> <<"convex dev fail">>

\* what the status line lists for the scores: a name for each stage whose
\* score is not 1, and the percentage for a tests ratio that is not 1
ExpectedFailures ==
    {FailureOf(scores[i].name) :
        i \in {k \in 1..Len(scores) : scores[k].name # L_tests /\ scores[k].score # One}}
    \cup {<<"tests fail", Percent(scores[i].score)>> :
        i \in {k \in 1..Len(scores) : scores[k].name = L_tests /\ scores[k].score # One}}

\* C25: the status line shows the pass symbol if and only if every score of
\* the vector is 1; otherwise it shows the fail symbol and lists exactly the
\* stages whose score is not 1, the tests with their ratio as a percentage
C25_StatusLineMatchesScores ==
    status # "" =>
        /\ status = "pass" <=> \A i \in 1..Len(scores) : scores[i].score = One
        /\ status \in {"pass", "fail"}
        /\ {failures[i] : i \in 1..Len(failures)} = ExpectedFailures
        /\ Cardinality(ExpectedFailures) = Len(failures)

\* a status line with the fail symbol that lists a failed stage and a tests
\* ratio of 50%
C25_Witness ==
    /\ status = "fail"
    /\ Len(failures) = 2
    /\ failures[1] = <<"tsc fail">>
    /\ failures[2] = <<"tests fail", 50>>
    /\ pc = "done" /\ result = "returned"

\* the names of the directories a relative path passes through
DirNames(rel) ==
    LET comps == Split(rel)
    IN {comps[i] : i \in 1..(Len(comps) - 1)}

\* C26: walk_answer yields exactly the files under the answer directory that
\* are named package.json or end in .ts and lie in no directory named
\* node_modules or _generated, at any depth; a directory whose name merely
\* contains one of those strings excludes nothing
C26_YieldsExactlySources ==
    walkOut.done =>
        walkOut.paths =
            {PathJoin(AnswerDir(EvalPath(Category, Name)), f) : f \in
                {g \in walkIn :
                    /\ \/ Basename(g) = <<"package.json">>
                       \/ EndsWith(Basename(g), <<".ts">>)
                    /\ <<"node_modules">> \notin DirNames(g)
                    /\ <<"_generated">> \notin DirNames(g)}}

\* C27: logging never fails the task: for every log path, content, command
\* and results value, append_log, append_log_block and log_cmd_results return
\* normally, and sanitize_output returns its input unchanged when the
\* sanitizing fails
C27_LoggingNeverRaises ==
    logOut.state # "idle" =>
        /\ logOut.state = "returned"
        /\ (logIn.fn = "sanitize_output" /\ logIn.content.kind # "str")
              => logOut.value = logIn.content

\* C28: whenever convex_scorer returns, the vector is either the single entry
\* of the filesystem stage with value 0, or the seven labels in their order
\* with the filesystem stage at 1; no label is ever in the vector twice
C28_VectorShape ==
    /\ result = "returned" =>
          \/ scores = <<Score(L_filesystem, Zero)>>
          \/ /\ Len(scores) = 7
             /\ \A i \in 1..7 : scores[i].name = LabelOrder[i]
             /\ scores[1].score = One
    /\ \A i, j \in 1..Len(scores) : scores[i].name = scores[j].name => i = j

\* convex_scorer returned a vector of seven entries
C28_Witness == result = "returned" /\ Len(scores) = 7 /\ pc = "done"

\* C29: a start that is accepted (the probe was answered and the poll found
\* the process alive, so the helper goes on to deploy) had its probe
\* answered by the process it spawned itself, never by the process of
\* another start that overlaps it
C29_AcceptedStartServedByOwnProcess ==
    \A d \in Deployers : dlog[d].polled => dlog[d].servedBy = d

\* the steps up to statement k of main() that are not below start_step
RECURSIVE StepsFrom(_, _)
StepsFrom(start_step, k) ==
    IF k = 0 THEN <<>>
    ELSE StepsFrom(start_step, k - 1)
         \o (IF CliSteps[k] >= start_step THEN <<CliSteps[k]>> ELSE <<>>)

\* the statements of main() the run has passed
Passed(run) ==
    CASE run.state = "running" -> run.pc - 1
      [] run.state = "done"    -> Len(CliSteps)
      [] run.state = "raised"  -> IF run.ran = <<>> THEN 0
                                  ELSE CHOOSE k \in 1..Len(CliSteps) :
                                           CliSteps[k] = run.ran[Len(run.ran)]
      [] OTHER                 -> 0

\* runs that ended before and performed step 1
Created == {i \in 1..Len(cliHist) : cliHist[i] # cli /\ 1 \in {cliHist[i].ran[j] : j \in 1..Len(cliHist[i].ran)}}

\* C30: the action of step n runs if and only if n >= start_step, and the
\* steps run in increasing order; a run resumed with start_step > 1 after a
\* run that performed step 1 works on the directory that step 1 created
C30_ResumeOnSameDirectory ==
    /\ cli.ran = StepsFrom(cli.start_step, Passed(cli))
    /\ (cli.state = "running" /\ cli.start_step > 1 /\ Created # {}) =>
          cli.testdir = cliHist[Max(Created)].testdir

====
